---- MODULE Spec2Model ----
(***************************************************************************)
(* Flight status notification system: the flight status state machine      *)
(* (models/Flight.js, services/FlightService.js), the subscription         *)
(* lifecycle (models/Subscription.js) and the notification dispatch        *)
(* engine (services/NotificationService.js).                               *)
(***************************************************************************)
EXTENDS Integers, Sequences, FiniteSets, TLC

VARIABLES
    flight,     \* the persisted Flight document
    fcall,      \* the last flight operation: its name, inputs and outcome
    notificationService, \* FlightService.notificationService: the notifier attached
    ncall,      \* the notification trigger of the last flight operation
    inflight,   \* per request in progress: its position, its input and its document
    now,        \* the clock (Date.now()), in milliseconds
    subs,       \* the persisted Subscription documents of the flight, oldest first
    scall,      \* the last subscription operation: its name, inputs and outcome
    rateLimitStore, \* NotificationService.rateLimitStore: key -> count
    timers,     \* the pending setTimeout deletions of rate-limit keys
    isEnabled,  \* NotificationService.isEnabled
    config,     \* NotificationService.config: rate limits and retry attempts
    dcall,      \* the dispatcher call of the last step: its name, inputs and outcome
    delivered,  \* per recipient, the deliveries in the current hour and day
    batch,      \* the dispatch in progress: the documents its query returned, its position
    issued,     \* per rate-limit key, the calls of updateRateLimit since it was last deleted
    sn,         \* an application of shouldNotifyStatusChange: inputs and result
    dbManager   \* the DatabaseManager, its connection attempt and its callers

flightVars == <<flight, fcall, notificationService, ncall, inflight>>

subVars == <<subs, scall>>

serviceVars == <<rateLimitStore, timers, isEnabled, config, dcall, delivered, batch,
                 issued>>

vars == <<flight, fcall, notificationService, ncall, inflight, now, subs, scall, rateLimitStore, timers, isEnabled,
          config, dcall, delivered, batch, issued, sn, dbManager>>

(***************************************************************************)
(* Bounds of the model.                                                    *)
(***************************************************************************)
MaxHistory == 6
MaxDirectHistory == 1

\* The transitions recorded by overlapping calls on one flight.
MaxOverlapHistory == 2

\* The addNotification calls made on one subscription.
MaxAdded == 160

\* The absent value of an optional field (undefined / null).
None == "None"
NoTime == -1
NoMinutes == -99

(***************************************************************************)
(* models/Flight.js                                                        *)
(***************************************************************************)
FLIGHT_STATUSES ==
    {"Scheduled", "Delayed", "Boarding", "Departed", "In-Air", "Arrived",
     "Cancelled", "Diverted"}

\* Times are in milliseconds, as Date values are; "(1000 * 60)" turns them to minutes.
MsPerMinute == 1000 * 60

\* schedule.departure.scheduled of the modelled flight, as it is created.
SchedDep == 0

\* schedule.arrival.scheduled of the modelled flight, as it is created.
SchedArr == SchedDep + 2 * MsPerMinute

\* The clock runs from the scheduled departure to one minute past it.
MaxNow == SchedDep + MsPerMinute

Max(a, b) == IF a >= b THEN a ELSE b

\* FlightSchema.methods.calculateDelay: the new delay.minutes of flight f at time t.
calculateDelay(f, t) ==
    LET delayMinutes ==
            IF f.depActual # NoTime
            THEN (f.depActual - f.schedDep) \div MsPerMinute
            ELSE IF f.depEstimated # NoTime
            THEN (f.depEstimated - f.schedDep) \div MsPerMinute
            ELSE IF t > f.schedDep /\ f.depActual = NoTime
            THEN (t - f.schedDep) \div MsPerMinute
            ELSE 0
    IN  Max(0, delayMinutes)

\* An entry that records the status the flight is moved to.
HistoryEntry_recordsNew(oldStatus, newStatus, updatedBy, metadata, t) ==
    [status    |-> newStatus,
     timestamp |-> t,
     reason    |-> <<"Changed from", oldStatus, "to", newStatus>>,
     updatedBy |-> updatedBy,
     metadata  |-> metadata]

\* The entry updateStatus pushes: the status recorded is the old one and the
\* reason is a generated text, whatever reason the caller gave.
HistoryEntry(oldStatus, newStatus, updatedBy, metadata, t) ==
    [status    |-> oldStatus,
     timestamp |-> t,
     reason    |-> <<"Changed from", oldStatus, "to", newStatus>>,
     updatedBy |-> updatedBy,
     metadata  |-> metadata]

\* An updateStatus that stamps the actual time on every move to Departed or
\* Arrived, recorded or not.
updateStatus_restamps(f, newStatus, reason, updatedBy, metadata, t) ==
    LET oldStatus == f.current
        f1 == [f EXCEPT
                 !.history = Append(@, HistoryEntry(oldStatus, newStatus, updatedBy, metadata, t)),
                 !.current = newStatus]
        f2 == IF newStatus = "Departed" THEN [f1 EXCEPT !.depActual = t] ELSE f1
        f3 == IF newStatus = "Arrived" THEN [f2 EXCEPT !.arrActual = t] ELSE f2
    IN  [f3 EXCEPT !.delayMinutes = calculateDelay(f3, t)]

\* FlightSchema.methods.updateStatus, for a newStatus of the enumeration.
updateStatus(f, newStatus, reason, updatedBy, metadata, t) ==
    LET oldStatus == f.current
        f1 == [f EXCEPT
                 !.history = Append(@, HistoryEntry(oldStatus, newStatus, updatedBy, metadata, t)),
                 !.current = newStatus]
        f2 == IF newStatus = "Departed" /\ f1.depActual = NoTime
              THEN [f1 EXCEPT !.depActual = t] ELSE f1
        f3 == IF newStatus = "Arrived" /\ f2.arrActual = NoTime
              THEN [f2 EXCEPT !.arrActual = t] ELSE f2
    IN  [f3 EXCEPT !.delayMinutes = calculateDelay(f3, t)]

\* FlightSchema.methods.addDelay
addDelay(f, minutes) ==
    [f EXCEPT
       !.delayMinutes = Max(0, f.delayMinutes + minutes),
       !.depEstimated = IF f.depEstimated # NoTime
                        THEN f.depEstimated + minutes * MsPerMinute
                        ELSE f.schedDep + minutes * MsPerMinute]

(***************************************************************************)
(* services/FlightService.js                                               *)
(***************************************************************************)
\* A table in which a cancelled flight can be reinstated and an arrived one diverted.
statusTransitions_reopen ==
    [s \in FLIGHT_STATUSES |->
        CASE s = "Scheduled" -> {"Delayed", "Boarding", "Cancelled"}
          [] s = "Delayed"   -> {"Boarding", "Cancelled"}
          [] s = "Boarding"  -> {"Departed", "Cancelled"}
          [] s = "Departed"  -> {"In-Air", "Diverted"}
          [] s = "In-Air"    -> {"Arrived", "Diverted"}
          [] s = "Arrived"   -> {"Diverted"}
          [] s = "Cancelled" -> {"Scheduled"}
          [] s = "Diverted"  -> {"Arrived"}]

statusTransitions ==
    [s \in FLIGHT_STATUSES |->
        CASE s = "Scheduled" -> {"Delayed", "Boarding", "Cancelled"}
          [] s = "Delayed"   -> {"Boarding", "Cancelled"}
          [] s = "Boarding"  -> {"Departed", "Cancelled"}
          [] s = "Departed"  -> {"In-Air", "Diverted"}
          [] s = "In-Air"    -> {"Arrived", "Diverted"}
          [] s = "Arrived"   -> {}
          [] s = "Cancelled" -> {}
          [] s = "Diverted"  -> {"Arrived"}]

\* A validation that only asks whether the requested status is a key of the table.
validateStatusTransition_anyKey(currentStatus, newStatus) ==
    newStatus \in DOMAIN statusTransitions

validateStatusTransition(currentStatus, newStatus) ==
    LET allowedTransitions ==
            IF currentStatus \in DOMAIN statusTransitions
            THEN statusTransitions[currentStatus] ELSE {}
    IN  newStatus \in allowedTransitions

\* The FlightStatusError thrown for a refused transition.
FlightStatusError(oldStatus, newStatus) ==
    [name              |-> "FlightStatusError",
     currentStatus     |-> oldStatus,
     requestedStatus   |-> newStatus,
     allowedTransitions |-> statusTransitions[oldStatus]]

NoError == [name |-> None]

\* The FlightNotFoundError thrown when no active flight has the number.
FlightNotFoundError == [name |-> "FlightNotFoundError"]

\* A guard that takes every supplied status for a change, the current one too.
StatusIsChanging_anySupplied(oldStatus, newStatus) ==
    newStatus # None

\* "if (newStatus && newStatus !== oldStatus)": a status is being changed.
StatusIsChanging(oldStatus, newStatus) ==
    newStatus # None /\ newStatus # oldStatus

\* The direct field updates of updateFlightStatus (Flight.findByIdAndUpdate),
\* applied after the status change; the delay is not recomputed there.
applyUpdateFields(f, updateData) ==
    [f EXCEPT
       !.schedDep     = IF updateData.depScheduled # NoTime THEN updateData.depScheduled ELSE @,
       !.arrActual    = IF updateData.arrActual # NoTime THEN updateData.arrActual ELSE @,
       !.depActual    = IF updateData.depActual # NoTime THEN updateData.depActual ELSE @,
       !.depEstimated = IF updateData.depEstimated # NoTime THEN updateData.depEstimated ELSE @,
       !.delayMinutes = IF updateData.delayMinutes # NoMinutes THEN updateData.delayMinutes ELSE @]

\* An updateFlightStatus that hands every supplied status to the model, unvalidated.
updateFlightStatus_unvalidated(f, updateData, updatedBy, t) ==
    LET f1 == IF StatusIsChanging(f.current, updateData.status)
              THEN updateStatus(f, updateData.status, updateData.reason, updatedBy,
                                updateData.metadata, t)
              ELSE f
    IN  IF ~f.isActive
        THEN [flight |-> f, error |-> FlightNotFoundError]
        ELSE [flight |-> applyUpdateFields(f1, updateData), error |-> NoError]

\* FlightService.updateFlightStatus on the stored flight f: the flight stored
\* afterwards and the error thrown (NoError when it resolves).
updateFlightStatus(f, updateData, updatedBy, t) ==
    LET oldStatus == f.current
        newStatus == updateData.status
    IN  IF ~f.isActive
        THEN [flight |-> f, error |-> FlightNotFoundError]
        ELSE IF StatusIsChanging(oldStatus, newStatus)
           /\ ~validateStatusTransition(oldStatus, newStatus)
        THEN [flight |-> f, error |-> FlightStatusError(oldStatus, newStatus)]
        ELSE LET f1 == IF StatusIsChanging(oldStatus, newStatus)
                       THEN updateStatus(f, newStatus, updateData.reason, updatedBy,
                                         updateData.metadata, t)
                       ELSE f
             IN  [flight |-> applyUpdateFields(f1, updateData), error |-> NoError]

FlightDatabaseError == [name |-> "FlightDatabaseError"]

\* The methods an object of class NotificationService has.
NotificationServiceMethods ==
    {"initializeTransporter", "notifyStatusChange", "sendStatusChangeEmail",
     "sendVerificationEmail", "generateStatusChangeEmailContent", "generateTextEmail",
     "generateHtmlEmail", "generateVerificationEmailContent", "getStatusSpecificMessage",
     "getActionButton", "shouldNotifyStatusChange", "checkRateLimit", "sendEmail",
     "sendEmailViaSendGrid", "sendEmailViaSMTP", "sendEmailViaWebhook",
     "sendEmailViaConsole", "retryFailedNotification", "processDataDeletionRequest",
     "minimizeDataForNotification", "enable", "disable", "getServiceHealth", "getStats",
     "generateEmailContent", "generateStatusSpecificContent", "exportPassengerData",
     "updateConfig", "getStatistics", "updateRateLimit", "resetRateLimit"}

\* notificationService = null, the constructor's default.
NoNotifier == [kind |-> None, methods |-> {}, rejects |-> FALSE]

\* new NotificationService(logger), as handed to new FlightService(logger, ...).
TheNotificationService ==
    [kind |-> "NotificationService", methods |-> NotificationServiceMethods,
     rejects |-> FALSE]

\* A test double with a notifyFlightStatusChange that resolves or rejects.
StubNotifier(rejects) ==
    [kind |-> "stub", methods |-> {"notifyFlightStatusChange"}, rejects |-> rejects]

NoTrigger ==
    [invoked |-> FALSE, method |-> None, flightStatus |-> None, oldStatus |-> None,
     newStatus |-> None, updatedBy |-> None, thrown |-> None, warned |-> FALSE]

\* The expression this.notificationService.notifyFlightStatusChange(updatedFlight,
\* oldStatus, newStatus, updatedBy): the invocation made and what it throws.
notifyFlightStatusChange(ns, updatedFlight, oldStatus, newStatus, updatedBy) ==
    IF "notifyFlightStatusChange" \notin ns.methods
    THEN [NoTrigger EXCEPT !.thrown = "TypeError"]
    ELSE [invoked |-> TRUE, method |-> "notifyFlightStatusChange",
          flightStatus |-> updatedFlight.current, oldStatus |-> oldStatus,
          newStatus |-> newStatus, updatedBy |-> updatedBy,
          thrown |-> IF ns.rejects THEN "Notification failed" ELSE None,
          warned |-> FALSE]

\* A notification trigger whose error leaves the handler's try block.
triggerCatch_rethrow(thrown) == FlightDatabaseError

\* The catch around the notification trigger: the error is logged as a
\* warning and the handler goes on.
triggerCatch(thrown) == NoError

\* FlightService.updateFlightStatus as a whole, on a service whose
\* notificationService is ns: the flight stored afterwards, the notification
\* trigger and the error thrown (NoError when it resolves).
updateFlightStatusAndNotify(ns, f, updateData, updatedBy, t) ==
    LET oldStatus == f.current
        newStatus == updateData.status
        r == updateFlightStatus(f, updateData, updatedBy, t)
        trigger == IF /\ r.error = NoError
                      /\ StatusIsChanging(oldStatus, newStatus)
                      /\ ns.kind # None
                   THEN notifyFlightStatusChange(ns, r.flight, oldStatus, newStatus,
                                                 updatedBy)
                   ELSE NoTrigger
    IN  [flight  |-> r.flight,
         trigger |-> [trigger EXCEPT !.warned = (trigger.thrown # None)],
         error   |-> IF r.error # NoError THEN r.error
                     ELSE IF trigger.thrown # None THEN triggerCatch(trigger.thrown)
                     ELSE NoError]

\* FlightService.validateRoute and validateSchedule on otherwise valid flight
\* data: whether validateFlightData collects an error.
validateFlightData(flightData) ==
    /\ flightData.origin # flightData.destination
    /\ ~(flightData.schedDep >= flightData.schedArr)

\* The document new Flight(flightData) saves: the schema defaults around the
\* route and the schedule given.
NewFlight(flightData) ==
    [isActive     |-> TRUE,
     origin       |-> flightData.origin,
     destination  |-> flightData.destination,
     schedDep     |-> flightData.schedDep,
     schedArr     |-> flightData.schedArr,
     current      |-> "Scheduled",
     history      |-> <<>>,
     depActual    |-> NoTime,
     depEstimated |-> NoTime,
     arrActual    |-> NoTime,
     delayMinutes |-> 0]

\* FlightService.createFlight with the stored flight f of the same number (not
\* active when there is none).
createFlight(f, flightData) ==
    IF ~validateFlightData(flightData)
    THEN [flight |-> f, error |-> [name |-> "FlightValidationError"]]
    ELSE IF f.isActive
    THEN [flight |-> f, error |-> [name |-> "FlightConflictError"]]
    ELSE [flight |-> NewFlight(flightData), error |-> NoError]

(***************************************************************************)
(* Inputs of the operations.                                               *)
(***************************************************************************)
\* The flight data createFlight is called with: a valid route and schedule, a
\* route from an airport to itself, and an arrival at the departure time.
FlightDatas ==
    [origin : {"JFK"}, destination : {"JFK", "LAX"},
     schedDep : {SchedDep}, schedArr : {SchedDep, SchedArr}]

\* The times requests set on the schedule.
ScheduledInputs == {SchedArr}
ActualInputs == {SchedDep + MsPerMinute \div 2}
NegativeDelay == 0 - 5
RequestedStatuses == FLIGHT_STATUSES \cup {None}
Actors == {"TestUser"}
Reasons == {"Flight ready for boarding"}
Metadatas == {{<<"gate", "A1">>}}
TimeInputs == {NoTime, SchedDep + 3 * (MsPerMinute \div 2)}
DelayInputs == {NoMinutes, 2}
AddDelayInputs == {-2, 1}

\* The requests: a status or none, and at most one of the optional field
\* groups, an estimated departure or a delay; the actual departure is the one
\* updateStatus stamps.
UpdateDatas ==
    {u \in [status : RequestedStatuses, reason : Reasons, metadata : Metadatas,
            depScheduled : {NoTime}, depActual : {NoTime}, arrActual : {NoTime},
            depEstimated : TimeInputs, delayMinutes : DelayInputs] :
        u.depEstimated = NoTime \/ u.delayMinutes = NoMinutes}

\* The requests that carry no status and exactly one field: a scheduled
\* departure or a delay in minutes.
FieldUpdateDatas ==
    {u \in [status : {None}, reason : Reasons, metadata : Metadatas,
            depScheduled : ScheduledInputs \cup {NoTime},
            depActual : {NoTime}, arrActual : {NoTime}, depEstimated : {NoTime},
            delayMinutes : {NoMinutes, NegativeDelay}] :
        (u.depScheduled = NoTime) # (u.delayMinutes = NoMinutes)}

\* The requests that carry no status and exactly one actual time: the
\* departure's or the arrival's.
ActualUpdateDatas ==
    {u \in [status : {None}, reason : Reasons, metadata : Metadatas,
            depScheduled : {NoTime},
            depActual : ActualInputs \cup {NoTime},
            arrActual : ActualInputs \cup {NoTime},
            depEstimated : {NoTime}, delayMinutes : {NoMinutes}] :
        (u.depActual = NoTime) # (u.arrActual = NoTime)}

(***************************************************************************)
(* models/Subscription.js                                                  *)
(***************************************************************************)
DayMs == 24 * 60 * 60 * 1000

MaxVerificationAttempts == 5

\* The random tokens the pre-save hook gives a new subscription.
VerificationToken == "verification-token"
UnsubscribeToken == "unsubscribe-token"

\* flightDate of the subscriptions: the day the clock starts in.
FlightDate == 0

NoStats ==
    [totalSent |-> 0, emailsSent |-> 0, smsSent |-> 0, pushSent |-> 0,
     lastNotificationSent |-> NoTime, notificationHistory |-> <<>>]

\* NotificationPreferencesSchema: the enabled flags the dispatcher reads, at
\* their defaults.
DefaultPreferences ==
    [status_changes |-> TRUE, delays |-> TRUE, cancellations |-> TRUE,
     boarding_calls |-> FALSE]

\* gdprCompliance.dataRetentionDays of the subscriptions of the flight, as
\* given when they are created: a value the schema accepts (1 to 3650) that,
\* like the default of 365, puts the retention date past flight date + 7
\* days, and whose milliseconds fit the integers of the model checker.
RetentionDays == 20

Min(a, b) == IF a < b THEN a ELSE b

\* A retention date counted from the epoch, not from the consent date.
gdprExpiry_noConsentDate(s) == s.dataRetentionDays * DayMs

\* "consentDate.getTime() + dataRetentionDays * 24 * 60 * 60 * 1000"
gdprExpiry(s) == s.consentDate + s.dataRetentionDays * DayMs

\* A pre-save hook that sets the expiry to the GDPR expiry whenever the
\* retention inputs were modified.
preSave_relaxes(s, isNew, gdprModified) ==
    LET s1 == IF isNew /\ s.expiresAt = NoTime
              THEN [s EXCEPT !.expiresAt = s.flightDate + 7 * DayMs]
              ELSE s
    IN  IF gdprModified /\ s1.dataRetentionDays # 0 /\ s1.consentDate # NoTime
        THEN [s1 EXCEPT !.expiresAt = gdprExpiry(s1)]
        ELSE s1

\* SubscriptionSchema.pre('save'), the part that computes expiresAt: isNew
\* is this.isNew, gdprModified is whether dataRetentionDays or consentDate
\* is modified.
preSave(s, isNew, gdprModified) ==
    LET s1 == IF isNew /\ s.expiresAt = NoTime
              THEN [s EXCEPT !.expiresAt = s.flightDate + 7 * DayMs]
              ELSE s
    IN  IF gdprModified /\ s1.dataRetentionDays # 0 /\ s1.consentDate # NoTime
        THEN IF s1.expiresAt = NoTime \/ gdprExpiry(s1) < s1.expiresAt
             THEN [s1 EXCEPT !.expiresAt = gdprExpiry(s1)]
             ELSE s1
        ELSE s1

\* A subscription to a flight of flightDate as first saved at time t, its
\* consent given at t: the schema defaults and the pre-save hook of a new
\* document, whose gdprCompliance the constructor has set.
NewSubscriptionWith(email, prefs, flightDate, retentionDays, t) ==
    preSave([email                    |-> email,
             notificationPreferences  |-> prefs,
             status                   |-> "pending",
             isVerified               |-> FALSE,
             verificationToken        |-> VerificationToken,
             verificationTokenExpires |-> t + DayMs,
             verifiedAt               |-> NoTime,
             verificationAttempts     |-> 0,
             unsubscribeToken         |-> UnsubscribeToken,
             isUnsubscribed           |-> FALSE,
             unsubscribedAt           |-> NoTime,
             reason                   |-> None,
             feedback                 |-> None,
             isActive                 |-> TRUE,
             flightDate               |-> flightDate,
             consentDate              |-> t,
             dataRetentionDays        |-> retentionDays,
             expiresAt                |-> NoTime,
             deletionRequested        |-> FALSE,
             deletionRequestedAt      |-> NoTime,
             notificationStats        |-> NoStats],
            TRUE, TRUE)

\* A subscription as first saved at time t: the schema defaults and the
\* pre-save hook of a new document.
NewSubscription(email, prefs, t) ==
    NewSubscriptionWith(email, prefs, FlightDate, RetentionDays, t)

\* A subscription that never counts as expired.
isExpired_never(s, t) == FALSE

\* SubscriptionSchema.virtual('isExpired')
isExpired(s, t) == s.expiresAt # NoTime /\ t > s.expiresAt

\* A verification token that never counts as expired.
isVerificationExpired_never(s, t) == FALSE

\* SubscriptionSchema.virtual('isVerificationExpired')
isVerificationExpired(s, t) ==
    s.verificationTokenExpires # NoTime /\ t > s.verificationTokenExpires

\* A verify that never finds the attempts exhausted.
attemptsExhausted_never(s) == FALSE

\* "this.verification.verificationAttempts >= 5" in verify.
attemptsExhausted(s) == s.verificationAttempts >= MaxVerificationAttempts

\* A verify that does not look at the verified flag first.
verify_noVerifiedCheck(s, token, t) ==
    IF isVerificationExpired(s, t)
    THEN [sub |-> s, error |-> "Verification token has expired"]
    ELSE IF attemptsExhausted(s)
    THEN [sub |-> s, error |-> "Maximum verification attempts exceeded"]
    ELSE IF s.verificationToken # token
    THEN [sub |-> [s EXCEPT !.verificationAttempts = @ + 1],
          error |-> "Invalid verification token"]
    ELSE [sub |-> [s EXCEPT !.isVerified = TRUE,
                            !.verifiedAt = t,
                            !.verificationToken = None,
                            !.verificationTokenExpires = NoTime,
                            !.status = "active"],
          error |-> None]

\* SubscriptionSchema.methods.verify: the document stored afterwards and the
\* message of the error thrown (None when it resolves).
verify(s, token, t) ==
    IF s.isVerified
    THEN [sub |-> s, error |-> "Subscription is already verified"]
    ELSE IF isVerificationExpired(s, t)
    THEN [sub |-> s, error |-> "Verification token has expired"]
    ELSE IF attemptsExhausted(s)
    THEN [sub |-> s, error |-> "Maximum verification attempts exceeded"]
    ELSE IF s.verificationToken # token
    THEN [sub |-> [s EXCEPT !.verificationAttempts = @ + 1],
          error |-> "Invalid verification token"]
    ELSE [sub |-> [s EXCEPT !.isVerified = TRUE,
                            !.verifiedAt = t,
                            !.verificationToken = None,
                            !.verificationTokenExpires = NoTime,
                            !.status = "active"],
          error |-> None]

\* "if (token && ...)": null, undefined and the empty string are falsy.
Truthy(token) == token # None /\ token # ""

\* An unsubscribeUser without its two checks.
unsubscribeUser_unchecked(s, token, reason, feedback, t) ==
    [sub |-> [s EXCEPT !.isUnsubscribed = TRUE,
                       !.unsubscribedAt = t,
                       !.reason = reason,
                       !.feedback = feedback,
                       !.status = "unsubscribed",
                       !.isActive = FALSE],
     error |-> None]

\* SubscriptionSchema.methods.unsubscribeUser
unsubscribeUser(s, token, reason, feedback, t) ==
    IF s.isUnsubscribed
    THEN [sub |-> s, error |-> "Already unsubscribed"]
    ELSE IF Truthy(token) /\ s.unsubscribeToken # token
    THEN [sub |-> s, error |-> "Invalid unsubscribe token"]
    ELSE [sub |-> [s EXCEPT !.isUnsubscribed = TRUE,
                            !.unsubscribedAt = t,
                            !.reason = reason,
                            !.feedback = feedback,
                            !.status = "unsubscribed",
                            !.isActive = FALSE],
          error |-> None]

\* A reactivate that makes every subscription Active.
reactivate_alwaysActive(s, t) ==
    IF ~s.isUnsubscribed
    THEN [sub |-> s, error |-> "Subscription is not unsubscribed"]
    ELSE IF isExpired(s, t)
    THEN [sub |-> s, error |-> "Cannot reactivate expired subscription"]
    ELSE [sub |-> [s EXCEPT !.isUnsubscribed = FALSE,
                            !.unsubscribedAt = NoTime,
                            !.reason = None,
                            !.feedback = None,
                            !.status = "active",
                            !.isActive = TRUE],
          error |-> None]

\* SubscriptionSchema.methods.reactivate
reactivate(s, t) ==
    IF ~s.isUnsubscribed
    THEN [sub |-> s, error |-> "Subscription is not unsubscribed"]
    ELSE IF isExpired(s, t)
    THEN [sub |-> s, error |-> "Cannot reactivate expired subscription"]
    ELSE [sub |-> [s EXCEPT !.isUnsubscribed = FALSE,
                            !.unsubscribedAt = NoTime,
                            !.reason = None,
                            !.feedback = None,
                            !.status = IF s.isVerified THEN "active" ELSE "pending",
                            !.isActive = TRUE],
          error |-> None]

(***************************************************************************)
(* Inputs of the subscription operations.                                  *)
(***************************************************************************)
Emails == <<"a@example.com", "b@example.com">>

VerifyTokens == {VerificationToken, "invalid-token"}
UnsubscribeTokens == {UnsubscribeToken, "invalid-token", None, ""}
UnsubscribeReasons == {"user_request", "admin_action"}
Feedbacks == {""}

\* The instants the subscription clock visits: creation, one and two days
\* later (the verification token lasts one day), and past the expiry.
SubTimes == {0, DayMs, 2 * DayMs, 8 * DayMs}

\* The subscriptions the lifecycle operations are called on.
LifecycleTargets == {1}

InitSubs == [i \in 1..Len(Emails) |-> NewSubscription(Emails[i], DefaultPreferences, 0)]

NoSubCall == [op |-> None, target |-> 0, token |-> None, error |-> None]

(***************************************************************************)
(* The notification service (NotificationService).                         *)
(***************************************************************************)
HourMs == 60 * 60 * 1000

\* addNotification keeps at most HistoryLimit entries of the history and cuts
\* it back to the HistoryKeep most recent ones when it grows past that.
HistoryLimit == 100
HistoryKeep == 50

\* The configuration the constructor builds when nothing overrides it.
DefaultConfig == [retryAttempts |-> 3, maxPerHour |-> 100, maxPerDay |-> 1000]

\* The rate-limit Map: a function from the keys that are present to counts.
EmptyStore == [k \in {} |-> 0]

\* A read that finds no key.
StoreGet_absent(store, k) == 0

\* this.rateLimitStore.get(key) || 0
StoreGet(store, k) == IF k \in DOMAIN store THEN store[k] ELSE 0

StoreSet(store, k, v) ==
    [x \in DOMAIN store \cup {k} |-> IF x = k THEN v ELSE store[x]]

StoreDelete(store, k) == [x \in DOMAIN store \ {k} |-> store[x]]

\* An hourly key that does not name the hour.
hourlyKey_noBucket(email, t) == [email |-> email, window |-> "hour", bucket |-> 0]

\* `${email}:hour:${Math.floor(now / (60 * 60 * 1000))}`
hourlyKey(email, t) == [email |-> email, window |-> "hour", bucket |-> t \div HourMs]

\* `${email}:day:${Math.floor(now / (24 * 60 * 60 * 1000))}`
dailyKey(email, t) == [email |-> email, window |-> "day", bucket |-> t \div DayMs]

\* NotificationService.shouldNotifyStatusChange
shouldNotifyStatusChange(subscription, oldStatus, newStatus) ==
    LET p == subscription.notificationPreferences
    IN  IF ~p.status_changes THEN FALSE
        ELSE IF oldStatus = newStatus THEN FALSE
        ELSE IF newStatus = "Boarding" THEN p.boarding_calls \/ p.status_changes
        ELSE IF newStatus = "Delayed" THEN p.delays \/ p.status_changes
        ELSE IF newStatus = "Cancelled" THEN p.cancellations \/ p.status_changes
        ELSE p.status_changes

\* A checkRateLimit that lets every recipient through.
checkRateLimit_unlimited(store, cfg, email, t) == TRUE

\* NotificationService.checkRateLimit
checkRateLimit(store, cfg, email, t) ==
    LET hourCount == StoreGet(store, hourlyKey(email, t))
        dayCount  == StoreGet(store, dailyKey(email, t))
    IN  IF hourCount >= cfg.maxPerHour THEN FALSE
        ELSE IF dayCount >= cfg.maxPerDay THEN FALSE
        ELSE TRUE

\* An updateRateLimit that counts the send in the hourly bucket only.
updateRateLimit_hourOnly(store, tms, email, t) ==
    LET hk == hourlyKey(email, t)
    IN  [store  |-> StoreSet(store, hk, StoreGet(store, hk) + 1),
         timers |-> tms \cup {[key |-> hk, fireAt |-> t + HourMs]}]

\* NotificationService.updateRateLimit: the Map and the timers afterwards.
updateRateLimit(store, tms, email, t) ==
    LET hk == hourlyKey(email, t)
        dk == dailyKey(email, t)
        s1 == StoreSet(store, hk, StoreGet(store, hk) + 1)
        s2 == StoreSet(s1, dk, StoreGet(store, dk) + 1)
    IN  [store  |-> s2,
         timers |-> tms \cup {[key |-> hk, fireAt |-> t + HourMs],
                              [key |-> dk, fireAt |-> t + DayMs]}]

\* A resetRateLimit that leaves the daily counter.
resetRateLimit_hourOnly(store, email, t) == StoreDelete(store, hourlyKey(email, t))

\* NotificationService.resetRateLimit: the Map afterwards.
resetRateLimit(store, email, t) ==
    StoreDelete(StoreDelete(store, hourlyKey(email, t)), dailyKey(email, t))

\* String.prototype.toLowerCase, for the letters the addresses are written in.
LowerCase(c) ==
    CASE c = "A" -> "a"
      [] c = "B" -> "b"
      [] c = "C" -> "c"
      [] c = "E" -> "e"
      [] c = "L" -> "l"
      [] c = "M" -> "m"
      [] c = "O" -> "o"
      [] c = "P" -> "p"
      [] c = "X" -> "x"
      [] OTHER -> c

RECURSIVE toLowerCase(_)
toLowerCase(str) ==
    IF Len(str) = 0 THEN ""
    ELSE LowerCase(SubSeq(str, 1, 1)) \o toLowerCase(SubSeq(str, 2, Len(str)))

\* String.prototype.includes
includes(str, searchString) ==
    \E i \in 1..(Len(str) - Len(searchString) + 1) :
        SubSeq(str, i, i + Len(searchString) - 1) = searchString

\* The string a key of the Map is: `${email}:hour:${bucket}` or
\* `${email}:day:${bucket}`.
keyString(k) == k.email \o ":" \o k.window \o ":" \o ToString(k.bucket)

\* SubscriptionSchema.methods.requestDeletion, before the save.
requestDeletion(s, t) ==
    [s EXCEPT !.deletionRequested = TRUE, !.deletionRequestedAt = t]

\* What the delivery channel does on its k-th invocation for one message:
\* "up" accepts every try, "down" rejects every try, "flaky" rejects the first
\* try and accepts from the second on.
ChannelAccepts(behaviour, k) ==
    CASE behaviour = "up"    -> TRUE
      [] behaviour = "down"  -> FALSE
      [] behaviour = "flaky" -> k >= 2

\* NotificationService.sendStatusChangeEmail: one sendEmail, its rejection
\* caught and returned.  calls counts the invocations of the channel.
sendStatusChangeEmail(behaviour) ==
    IF ChannelAccepts(behaviour, 1)
    THEN [success |-> TRUE, messageId |-> "message-id", error |-> None, calls |-> 1]
    ELSE [success |-> FALSE, messageId |-> None, error |-> "send failed", calls |-> 1]

\* NotificationService.retryFailedNotification(notificationData, attempt) for a
\* message the channel has already been tried `tried` times for.
RECURSIVE retryFailedNotification(_, _, _, _)
retryFailedNotification(behaviour, attempt, cfg, tried) ==
    IF attempt > cfg.retryAttempts
    THEN [success |-> FALSE, error |-> "Max retry attempts reached", calls |-> tried]
    ELSE IF ChannelAccepts(behaviour, tried + 1)
    THEN [success |-> TRUE, error |-> None, calls |-> tried + 1]
    ELSE IF attempt < cfg.retryAttempts
    THEN retryFailedNotification(behaviour, attempt + 1, cfg, tried + 1)
    ELSE [success |-> FALSE, error |-> "send failed", calls |-> tried + 1]

\* An addNotification that cuts the history back to its oldest entries.
addNotification_keepsOldest(s, type, method, status, messageId, error, t) ==
    LET st == s.notificationStats
        h  == Append(st.notificationHistory,
                     [type |-> type, method |-> method, status |-> status,
                      messageId |-> messageId, error |-> error])
    IN  [s EXCEPT !.notificationStats =
            [st EXCEPT !.totalSent = @ + 1,
                       !.lastNotificationSent = t,
                       !.emailsSent = IF method = "email" THEN @ + 1 ELSE @,
                       !.smsSent = IF method = "sms" THEN @ + 1 ELSE @,
                       !.pushSent = IF method = "push" THEN @ + 1 ELSE @,
                       !.notificationHistory =
                           IF Len(h) > HistoryLimit
                           THEN SubSeq(h, 1, HistoryKeep)
                           ELSE h]]

\* SubscriptionSchema.methods.addNotification, before the save.
addNotification(s, type, method, status, messageId, error, t) ==
    LET st == s.notificationStats
        h  == Append(st.notificationHistory,
                     [type |-> type, method |-> method, status |-> status,
                      messageId |-> messageId, error |-> error])
    IN  [s EXCEPT !.notificationStats =
            [st EXCEPT !.totalSent = @ + 1,
                       !.lastNotificationSent = t,
                       !.emailsSent = IF method = "email" THEN @ + 1 ELSE @,
                       !.smsSent = IF method = "sms" THEN @ + 1 ELSE @,
                       !.pushSent = IF method = "push" THEN @ + 1 ELSE @,
                       !.notificationHistory =
                           IF Len(h) > HistoryLimit
                           THEN SubSeq(h, Len(h) - HistoryKeep + 1, Len(h))
                           ELSE h]]

\* A query that matches every subscription of the flight.
findActiveByFlight_everyone(ss) == DOMAIN ss

\* Subscription.findActiveByFlight: the filter on the stored documents (all
\* of them are subscriptions to the one flight).
findActiveByFlight(ss) ==
    {i \in DOMAIN ss : /\ ss[i].isActive
                       /\ ss[i].status \in {"active", "pending"}
                       /\ ~ss[i].isUnsubscribed}

\* The array the query resolves with: the matched documents as they are
\* stored at that moment, sorted by createdAt, each with its place in subs.
foundDocuments(ss) ==
    SelectSeq([i \in DOMAIN ss |-> [index |-> i, doc |-> ss[i]]],
              LAMBDA e : e.index \in findActiveByFlight(ss))

\* The stored document after the save() that ends addNotification on doc, a
\* document loaded as snapshot: the save writes the paths the call modified,
\* those of notificationStats, and no other.
saveNotificationStats(stored, snapshot, doc) ==
    IF doc = snapshot THEN stored
    ELSE [stored EXCEPT !.notificationStats = doc.notificationStats]

\* One entry of results.details.
Detail(email, status, messageId, error) ==
    [email |-> email, status |-> status, messageId |-> messageId, error |-> error]

\* What processing one subscription leaves behind: the stored document, the
\* increments of the two counters, the details pushed, the invocations of the
\* channel, and the exception that left the block (None when none did).
Outcome(s, sent, failed, details, calls, thrown) ==
    [sub |-> s, sent |-> sent, failed |-> failed, details |-> details,
     calls |-> calls, thrown |-> thrown]

\* The body of the per-subscription try block of notifyStatusChange.  env is
\* what the outside does during it: how the channel behaves for this message
\* and whether the save of the document resolves or rejects.
subscriptionTry(s, oldStatus, newStatus, store, cfg, env, t) ==
    IF ~shouldNotifyStatusChange(s, oldStatus, newStatus)
    THEN Outcome(s, 0, 0, <<>>, 0, None)
    ELSE IF ~checkRateLimit(store, cfg, s.email, t)
    THEN Outcome(s, 0, 0, <<Detail(s.email, "rate_limited", None, None)>>, 0, None)
    ELSE LET r == sendStatusChangeEmail(env.channel)
             status == IF r.success THEN "sent" ELSE "failed"
             sent == IF r.success THEN 1 ELSE 0
             failed == IF r.success THEN 0 ELSE 1
         IN  IF env.save = "rejects"
             THEN Outcome(s, sent, failed, <<>>, r.calls, "save failed")
             ELSE Outcome(addNotification(s, "status_changes", "email", status,
                                          r.messageId, r.error, t),
                          sent, failed,
                          <<Detail(s.email, status, r.messageId, r.error)>>,
                          r.calls, None)

\* A per-subscription block that lets the exception through.
subscriptionCatch_rethrow(o) == o

\* The catch of the per-subscription try block.
subscriptionCatch(o) ==
    IF o.thrown = None THEN o
    ELSE [o EXCEPT !.failed = @ + 1,
                   !.details = Append(@, Detail(o.sub.email, "error", None, o.thrown)),
                   !.thrown = None]

\* The for loop of notifyStatusChange from the i-th stored document on, over
\* the documents the query matched; an exception that leaves a block ends it.
RECURSIVE processSubscriptions(_, _, _, _)
processSubscriptions(i, acc, matching, c) ==
    IF i > Len(acc.subs) THEN acc
    ELSE IF i \notin matching THEN processSubscriptions(i + 1, acc, matching, c)
    ELSE LET o == subscriptionCatch(
                      subscriptionTry(acc.subs[i], c.oldStatus, c.newStatus,
                                      c.store, c.cfg, c.envs[i], c.t))
             acc1 == [subs |-> [acc.subs EXCEPT ![i] = o.sub],
                      notificationsSent |-> acc.notificationsSent + o.sent,
                      notificationsFailed |-> acc.notificationsFailed + o.failed,
                      details |-> acc.details \o o.details,
                      calls |-> [acc.calls EXCEPT ![i] = o.calls],
                      thrown |-> o.thrown]
         IN  IF o.thrown # None THEN acc1
             ELSE processSubscriptions(i + 1, acc1, matching, c)

NoResult ==
    [success |-> None, notificationsSent |-> 0, notificationsFailed |-> 0,
     details |-> <<>>, message |-> None, error |-> None]

\* A notifyStatusChange that does not look at isEnabled.
notifyStatusChange_ignoresSwitch(ss, oldStatus, newStatus, store, cfg, enabled, envs, t) ==
    LET noCalls == [i \in DOMAIN ss |-> 0]
        matching == findActiveByFlight(ss)
    IN  IF matching = {}
        THEN [subs |-> ss, calls |-> noCalls,
              result |-> [NoResult EXCEPT !.success = TRUE,
                                          !.message = "No subscriptions found"]]
        ELSE LET acc == processSubscriptions(1,
                            [subs |-> ss, notificationsSent |-> 0,
                             notificationsFailed |-> 0, details |-> <<>>,
                             calls |-> noCalls, thrown |-> None],
                            matching,
                            [oldStatus |-> oldStatus, newStatus |-> newStatus,
                             store |-> store, cfg |-> cfg, envs |-> envs, t |-> t])
             IN  [subs |-> acc.subs, calls |-> acc.calls,
                  result |-> [NoResult EXCEPT
                                 !.success = TRUE,
                                 !.notificationsSent = acc.notificationsSent,
                                 !.notificationsFailed = acc.notificationsFailed,
                                 !.details = acc.details]]

\* NotificationService.notifyStatusChange(flight, oldStatus): the stored
\* documents afterwards, the result it resolves with, and the invocations of
\* the channel for each document.
notifyStatusChange(ss, oldStatus, newStatus, store, cfg, enabled, envs, t) ==
    LET noCalls == [i \in DOMAIN ss |-> 0]
        matching == findActiveByFlight(ss)
    IN  IF ~enabled
        THEN [subs |-> ss, calls |-> noCalls,
              result |-> [NoResult EXCEPT !.success = TRUE,
                                          !.message = "Service disabled"]]
        ELSE IF matching = {}
        THEN [subs |-> ss, calls |-> noCalls,
              result |-> [NoResult EXCEPT !.success = TRUE,
                                          !.message = "No subscriptions found"]]
        ELSE LET acc == processSubscriptions(1,
                            [subs |-> ss, notificationsSent |-> 0,
                             notificationsFailed |-> 0, details |-> <<>>,
                             calls |-> noCalls, thrown |-> None],
                            matching,
                            [oldStatus |-> oldStatus, newStatus |-> newStatus,
                             store |-> store, cfg |-> cfg, envs |-> envs, t |-> t])
             IN  IF acc.thrown # None
                 THEN [subs |-> acc.subs, calls |-> acc.calls,
                       result |-> [NoResult EXCEPT !.success = FALSE,
                                                   !.error = acc.thrown]]
                 ELSE [subs |-> acc.subs, calls |-> acc.calls,
                       result |-> [NoResult EXCEPT
                                      !.success = TRUE,
                                      !.notificationsSent = acc.notificationsSent,
                                      !.notificationsFailed = acc.notificationsFailed,
                                      !.details = acc.details]]

\* NotificationService.processDataDeletionRequest(email): the stored
\* documents and the Map afterwards and the result it resolves with.  saving
\* tells whether the saves of requestDeletion resolve or reject.
processDataDeletionRequest(ss, store, email, saving, t) ==
    LET found == {i \in DOMAIN ss : ss[i].email = toLowerCase(email)}
        keys == {k \in DOMAIN store : includes(keyString(k), email)}
    IN  IF found = {}
        THEN [subs |-> ss, store |-> store, deleted |-> {},
              result |-> [NoResult EXCEPT !.success = TRUE,
                                          !.message = "No data found"]]
        ELSE IF saving = "rejects"
        THEN [subs |-> ss, store |-> store, deleted |-> {},
              result |-> [NoResult EXCEPT !.success = FALSE,
                                          !.error = "save failed"]]
        ELSE [subs |-> [i \in DOMAIN ss |->
                          IF i \in found THEN requestDeletion(ss[i], t) ELSE ss[i]],
              store |-> [k \in DOMAIN store \ keys |-> store[k]],
              deleted |-> keys,
              result |-> [NoResult EXCEPT
                            !.success = TRUE,
                            !.message = "Data deletion request processed successfully"]]

(***************************************************************************)
(* Inputs of the notification service.                                     *)
(***************************************************************************)
\* Bounds of the exploration: notifications recorded for or delivered to one
\* subscriber, and manual increments of one rate-limit counter.
MaxNotifications == 2
MaxRateCount == 1

\* The configuration in force: the limits and the retry budget the tests set.
Configs == {[retryAttempts |-> 2, maxPerHour |-> 1, maxPerDay |-> 1]}

PreferenceSets ==
    [status_changes : BOOLEAN, delays : BOOLEAN, cancellations : BOOLEAN,
     boarding_calls : BOOLEAN]

\* The preferences of the second subscriber of a dispatch.
DispatchPreferences == {DefaultPreferences}

\* The status changes a dispatch is called for, as <<oldStatus, newStatus>>.
DispatchTransitions ==
    {<<"Scheduled", "Boarding">>, <<"Boarding", "Boarding">>}

ChannelBehaviours == {"up", "down", "flaky"}
SaveOutcomes == {"resolves", "rejects"}
Envs == [channel : ChannelBehaviours, save : SaveOutcomes]

\* The surroundings of a dispatch: for each stored document how the channel
\* and the save behave; they depart from the fault-free one for the documents
\* of FaultTargets only.
Nominal == [channel |-> "up", save |-> "resolves"]
FaultTargets == {1}
DispatchEnvs ==
    {envs \in [1..Len(Emails) -> Envs] :
        \A i \in 1..Len(Emails) : i \notin FaultTargets => envs[i] = Nominal}

\* Bounds of the exploration: calls of updateRateLimit for one recipient
\* counted in one day bucket, and timers pending at a call of updateRateLimit.
MaxUpdates == 2
MaxTimers == 4

\* Limits that differ, so that the daily one is reached with the hourly one
\* not reached.
RateConfigs == {[retryAttempts |-> 2, maxPerHour |-> 1, maxPerDay |-> 2]}

\* The addresses the rate-limit methods are called with: a subscriber's and
\* one that contains it.
Recipients == {Emails[1], "a" \o Emails[1]}

\* The addresses a deletion is requested for: a subscriber's as stored and as
\* typed with a capital, and another subscriber's.
DeletionEmails == {Emails[1], "A@example.com", Emails[2]}

\* The instants the clock visits: two hour buckets of one day and the first
\* of the next.
RateTimes == {0, HourMs, DayMs}

\* The subscribers the rate-limit counters are updated for by hand.
RateLimitTargets == {1}

\* The instants the service clock visits: one hour bucket, the next, and the
\* next day bucket.
DispatchTimes == {0, HourMs, DayMs}

NoDispatch ==
    [op |-> None, oldStatus |-> None, newStatus |-> None, envs |-> <<>>,
     result |-> NoResult, calls |-> <<>>, target |-> 0, email |-> None,
     returned |-> FALSE]

NoDeliveries == [i \in 1..Len(Emails) |-> [hour |-> 0, day |-> 0]]

(***************************************************************************)
(* The database manager (DatabaseManager).                                 *)
(***************************************************************************)
\* config.database.maxRetries
maxRetries == 3

\* The callers of dbManager.connect().
Callers == {1, 2, 3}

\* The DatabaseManager after construction.  connectionPromise is "null",
\* "pending" (the promise of the _attemptConnection in progress) or
\* "undefined" (a promise fulfilled with undefined).  pc is where the
\* _attemptConnection in progress stands, attempts the calls of
\* mongoose.connect it has made, live whether mongoose holds a connection, and
\* outcome what each caller's last connect() has come to.
NewDatabaseManager ==
    [isConnected       |-> FALSE,
     retryAttempts     |-> 0,
     connectionPromise |-> "null",
     pc                |-> "none",
     attempts          |-> 0,
     live              |-> FALSE,
     outcome           |-> [p \in Callers |-> "none"]]

\* What the awaiting callers come to when the promise they share settles.
Settle(outcome, settled) ==
    [p \in DOMAIN outcome |-> IF outcome[p] = "awaiting" THEN settled ELSE outcome[p]]

\* DatabaseManager.connect() called by p, up to its first await.
connect(db, p) ==
    IF db.isConnected
    THEN [db EXCEPT !.outcome[p] = "connection"]
    ELSE IF db.connectionPromise = "pending"
    THEN [db EXCEPT !.outcome[p] = "awaiting"]
    ELSE IF db.connectionPromise = "undefined"
    THEN [db EXCEPT !.outcome[p] = "undefined"]
    ELSE IF db.retryAttempts < maxRetries
    THEN [db EXCEPT !.connectionPromise = "pending",
                    !.pc = "connecting",
                    !.attempts = 1,
                    !.outcome[p] = "awaiting"]
    ELSE [db EXCEPT !.connectionPromise = "undefined",
                    !.attempts = 0,
                    !.outcome[p] = "undefined"]

\* _attemptConnection after mongoose.connect has resolved.
connectResolved(db) ==
    [db EXCEPT !.isConnected = TRUE,
               !.live = TRUE,
               !.retryAttempts = 0,
               !.connectionPromise = "null",
               !.pc = "none",
               !.outcome = Settle(@, "connection")]

\* _attemptConnection after mongoose.connect has rejected: the catch block.
connectRejected(db) ==
    IF db.retryAttempts + 1 >= maxRetries
    THEN [db EXCEPT !.retryAttempts = @ + 1,
                    !.connectionPromise = "null",
                    !.pc = "none",
                    !.outcome = Settle(@, "rejected")]
    ELSE [db EXCEPT !.retryAttempts = @ + 1, !.pc = "delaying"]

\* _attemptConnection after the delay: the test of the while loop.
delayElapsed(db) ==
    IF db.retryAttempts < maxRetries
    THEN [db EXCEPT !.pc = "connecting", !.attempts = @ + 1]
    ELSE [db EXCEPT !.pc = "none", !.outcome = Settle(@, "undefined")]

\* No dispatch in progress.
NoBatch ==
    [pc |-> "idle", oldStatus |-> None, newStatus |-> None, envs |-> <<>>,
     found |-> <<>>, pos |-> 0, result |-> NoResult,
     calls |-> [i \in 1..Len(Emails) |-> 0]]

NoApplication ==
    [prefs |-> DefaultPreferences, oldStatus |-> None, newStatus |-> None,
     applied |-> FALSE, result |-> FALSE]

NoCall == [op |-> None, requested |-> None, error |-> [name |-> None]]

InitFlight ==
    [isActive     |-> TRUE,
     origin       |-> "JFK",
     destination  |-> "LAX",
     schedDep     |-> SchedDep,
     schedArr     |-> SchedArr,
     current      |-> "Scheduled",
     history      |-> <<>>,
     depActual    |-> NoTime,
     depEstimated |-> NoTime,
     arrActual    |-> NoTime,
     delayMinutes |-> 0]

\* The calls of updateFlightStatus that can be in progress at once.
Requests == {1, 2}

\* The statuses the concurrent callers ask for.
ConcurrentStatuses == {"Boarding", "Cancelled"}

\* The requests of the concurrent callers: a status and nothing else.
ConcurrentUpdateDatas ==
    {u \in UpdateDatas : u.status \in ConcurrentStatuses /\ u.depEstimated = NoTime
                                                         /\ u.delayMinutes = NoMinutes}

NoRequest ==
    [pc |-> "idle", updateData |-> CHOOSE u \in ConcurrentUpdateDatas : TRUE,
     updatedBy |-> None, doc |-> InitFlight]

NoRequests == [p \in Requests |-> NoRequest]

Init ==
    /\ flight = InitFlight
    /\ fcall = NoCall
    /\ notificationService = NoNotifier
    /\ ncall = NoTrigger
    /\ inflight = NoRequests
    /\ now = 0
    /\ subs = InitSubs
    /\ scall = NoSubCall
    /\ rateLimitStore = EmptyStore
    /\ timers = {}
    /\ isEnabled = TRUE
    /\ config = DefaultConfig
    /\ dcall = NoDispatch
    /\ batch = NoBatch
    /\ issued = EmptyStore
    /\ delivered = NoDeliveries
    /\ sn = NoApplication
    /\ dbManager = NewDatabaseManager

(***************************************************************************)
(* Actions.                                                                *)
(***************************************************************************)
Tick ==
    /\ now < MaxNow
    /\ now' = now + MsPerMinute
    /\ UNCHANGED <<flightVars, subVars, serviceVars, sn, dbManager>>

\* A call of FlightService.updateFlightStatus(flightNumber, updateData, updatedBy).
UpdateFlightStatus ==
    \E updateData \in UpdateDatas, updatedBy \in Actors :
        LET r == updateFlightStatusAndNotify(notificationService, flight, updateData,
                                             updatedBy, now)
        IN  /\ Len(r.flight.history) <= MaxHistory
            /\ flight' = r.flight
            /\ fcall' = [op |-> "updateFlightStatus", requested |-> updateData.status,
                         error |-> r.error]
            /\ ncall' = r.trigger
            /\ UNCHANGED <<notificationService, inflight, now, subVars, serviceVars, sn, dbManager>>

\* A direct call of flight.updateStatus(newStatus) on the model.
ModelUpdateStatus ==
    \E newStatus \in FLIGHT_STATUSES \cup {"INVALID_STATUS"} :
        /\ Len(flight.history) < MaxDirectHistory
        /\ IF newStatus \notin FLIGHT_STATUSES
           THEN /\ flight' = flight
                /\ fcall' = [op |-> "updateStatus", requested |-> newStatus,
                             error |-> [name |-> "Invalid status"]]
           ELSE /\ flight' = updateStatus(flight, newStatus, None, "System", {}, now)
                /\ fcall' = [op |-> "updateStatus", requested |-> newStatus,
                             error |-> NoError]
        /\ ncall' = NoTrigger
        /\ UNCHANGED <<notificationService, inflight, now, subVars, serviceVars, sn, dbManager>>

\* A call of FlightService.createFlight(flightData).
CreateFlight ==
    \E flightData \in FlightDatas :
        LET r == createFlight(flight, flightData)
        IN  /\ flight' = r.flight
            /\ fcall' = [op |-> "createFlight", requested |-> None, error |-> r.error]
            /\ ncall' = NoTrigger
            /\ UNCHANGED <<notificationService, inflight, now, subVars, serviceVars, sn, dbManager>>

\* A call of FlightService.updateFlightStatus with a request that carries no
\* status, only a schedule time or a delay.
UpdateFlightFields ==
    \E updateData \in FieldUpdateDatas, updatedBy \in Actors :
        LET r == updateFlightStatusAndNotify(notificationService, flight, updateData,
                                             updatedBy, now)
        IN  /\ flight' = r.flight
            /\ fcall' = [op |-> "updateFlightStatus", requested |-> updateData.status,
                         error |-> r.error]
            /\ ncall' = r.trigger
            /\ UNCHANGED <<notificationService, inflight, now, subVars, serviceVars, sn, dbManager>>

\* A call of FlightService.updateFlightStatus with a request that carries no
\* status, only an actual time.
UpdateActualTimes ==
    \E updateData \in ActualUpdateDatas, updatedBy \in Actors :
        LET r == updateFlightStatusAndNotify(notificationService, flight, updateData,
                                             updatedBy, now)
        IN  /\ flight' = r.flight
            /\ fcall' = [op |-> "updateFlightStatus", requested |-> updateData.status,
                         error |-> r.error]
            /\ ncall' = r.trigger
            /\ UNCHANGED <<notificationService, inflight, now, subVars, serviceVars, sn, dbManager>>

\* A direct call of flight.addDelay(minutes) on the model.
ModelAddDelay ==
    \E minutes \in AddDelayInputs :
        /\ flight.isActive
        /\ flight.depEstimated = NoTime
        /\ flight' = addDelay(flight, minutes)
        /\ fcall' = [op |-> "addDelay", requested |-> None, error |-> NoError]
        /\ ncall' = NoTrigger
        /\ UNCHANGED <<notificationService, inflight, now, subVars, serviceVars, sn, dbManager>>

\* No flight has been created yet.
RecordInit ==
    /\ flight = [InitFlight EXCEPT !.isActive = FALSE]
    /\ fcall = NoCall
    /\ notificationService = NoNotifier
    /\ ncall = NoTrigger
    /\ inflight = NoRequests
    /\ now = 0
    /\ subs = InitSubs
    /\ scall = NoSubCall
    /\ rateLimitStore = EmptyStore
    /\ timers = {}
    /\ isEnabled = TRUE
    /\ config = DefaultConfig
    /\ dcall = NoDispatch
    /\ batch = NoBatch
    /\ issued = EmptyStore
    /\ delivered = NoDeliveries
    /\ sn = NoApplication
    /\ dbManager = NewDatabaseManager

\* The flight record from its creation on, through the service and through
\* the model's addDelay.
RecordNext ==
    \/ Tick
    \/ CreateFlight
    \/ UpdateFlightStatus
    \/ UpdateFlightFields
    \/ ModelAddDelay

RecordSpec == RecordInit /\ [][RecordNext]_vars

\* The flight as driven through the service, by requests that change the
\* status and by requests that record an actual time.
StampNext == Tick \/ UpdateFlightStatus \/ UpdateActualTimes

StampSpec == Init /\ [][StampNext]_vars

\* What await flight.save() writes for a document read as snapshot and
\* changed to doc by updateStatus, onto the stored document: the entries
\* pushed to status.history and the paths whose value was modified.
save(stored, snapshot, doc) ==
    [stored EXCEPT
       !.history = @ \o SubSeq(doc.history, Len(snapshot.history) + 1, Len(doc.history)),
       !.current = IF doc.current # snapshot.current THEN doc.current ELSE @,
       !.depActual = IF doc.depActual # snapshot.depActual THEN doc.depActual ELSE @,
       !.arrActual = IF doc.arrActual # snapshot.arrActual THEN doc.arrActual ELSE @,
       !.delayMinutes = IF doc.delayMinutes # snapshot.delayMinutes
                        THEN doc.delayMinutes ELSE @]

\* Call p of updateFlightStatus starts: Flight.findOne resolves with the
\* stored document.
FindOne(p) ==
    \E updateData \in ConcurrentUpdateDatas, updatedBy \in Actors :
        /\ inflight[p].pc = "idle"
        /\ flight.isActive
        /\ inflight' = [inflight EXCEPT ![p] = [pc |-> "found", updateData |-> updateData,
                                                 updatedBy |-> updatedBy, doc |-> flight]]
        /\ UNCHANGED <<flight, fcall, notificationService, ncall, now, subVars,
                       serviceVars, sn, dbManager>>

\* Call p goes on from the document it found: the transition is validated
\* and applied on that document, the document is saved and the call ends.
ValidateAndSave(p) ==
    LET r == updateFlightStatusAndNotify(notificationService, inflight[p].doc,
                                         inflight[p].updateData, inflight[p].updatedBy, now)
    IN  /\ inflight[p].pc = "found"
        /\ Len(flight.history) < MaxOverlapHistory
        /\ flight' = IF r.error = NoError THEN save(flight, inflight[p].doc, r.flight)
                     ELSE flight
        /\ fcall' = [op |-> "updateFlightStatus",
                     requested |-> inflight[p].updateData.status, error |-> r.error]
        /\ ncall' = r.trigger
        /\ inflight' = [inflight EXCEPT ![p] = NoRequest]
        /\ UNCHANGED <<notificationService, now, subVars, serviceVars, sn, dbManager>>

ConcurrentNext == Tick \/ \E p \in Requests : FindOne(p) \/ ValidateAndSave(p)

\* The flight as driven by calls of the service that overlap.
ConcurrentSpec == Init /\ [][ConcurrentNext]_vars

\* The notifiers a FlightService is constructed with.
Notifiers == {NoNotifier, TheNotificationService, StubNotifier(FALSE), StubNotifier(TRUE)}

NotifyInit ==
    /\ flight = InitFlight
    /\ fcall = NoCall
    /\ notificationService \in Notifiers
    /\ ncall = NoTrigger
    /\ inflight = NoRequests
    /\ now = 0
    /\ subs = InitSubs
    /\ scall = NoSubCall
    /\ rateLimitStore = EmptyStore
    /\ timers = {}
    /\ isEnabled = TRUE
    /\ config = DefaultConfig
    /\ dcall = NoDispatch
    /\ batch = NoBatch
    /\ issued = EmptyStore
    /\ delivered = NoDeliveries
    /\ sn = NoApplication
    /\ dbManager = NewDatabaseManager

\* The flight as driven through a service that has a notifier attached, or none.
NotifySpec == NotifyInit /\ [][Tick \/ UpdateFlightStatus]_vars

\* The flight as driven through the service only.
FlightNext == Tick \/ UpdateFlightStatus

FlightSpec == Init /\ [][FlightNext]_vars

\* The flight as driven through the service and through the model's own method.
ModelNext == Tick \/ UpdateFlightStatus \/ ModelUpdateStatus

ModelSpec == Init /\ [][ModelNext]_vars

\* Time passes for the subscriptions.
SubTick ==
    /\ \E t \in SubTimes : t > now /\ now' = t
    /\ UNCHANGED <<flightVars, subVars, serviceVars, sn, dbManager>>

\* A call of subscription.verify(token).
Verify ==
    \E i \in LifecycleTargets, token \in VerifyTokens :
        LET r == verify(subs[i], token, now)
        IN  /\ subs' = [subs EXCEPT ![i] = r.sub]
            /\ scall' = [op |-> "verify", target |-> i, token |-> token, error |-> r.error]
            /\ UNCHANGED <<flightVars, now, serviceVars, sn, dbManager>>

\* A call of subscription.unsubscribeUser(token, reason, feedback).
UnsubscribeUser ==
    \E i \in LifecycleTargets, token \in UnsubscribeTokens,
       reason \in UnsubscribeReasons, feedback \in Feedbacks :
        LET r == unsubscribeUser(subs[i], token, reason, feedback, now)
        IN  /\ subs' = [subs EXCEPT ![i] = r.sub]
            /\ scall' = [op |-> "unsubscribeUser", target |-> i, token |-> token,
                         error |-> r.error]
            /\ UNCHANGED <<flightVars, now, serviceVars, sn, dbManager>>

\* A call of subscription.reactivate().
Reactivate ==
    \E i \in LifecycleTargets :
        LET r == reactivate(subs[i], now)
        IN  /\ subs' = [subs EXCEPT ![i] = r.sub]
            /\ scall' = [op |-> "reactivate", target |-> i, token |-> None,
                         error |-> r.error]
            /\ UNCHANGED <<flightVars, now, serviceVars, sn, dbManager>>

\* The lifecycle of a subscription.
SubNext == SubTick \/ Verify \/ UnsubscribeUser \/ Reactivate

SubSpec == Init /\ [][SubNext]_vars

\* A direct call of subscription.addNotification(type, method, status,
\* messageId), the messages numbered in the order of the calls.
AddNotification ==
    \E i \in LifecycleTargets :
        LET messageId == ToString(subs[i].notificationStats.totalSent + 1)
        IN  /\ subs[i].notificationStats.totalSent < MaxAdded
            /\ subs' = [subs EXCEPT ![i] = addNotification(@, "delays", "email", "sent",
                                                           messageId, None, now)]
            /\ scall' = [op |-> "addNotification", target |-> i, token |-> messageId,
                         error |-> None]
            /\ UNCHANGED <<flightVars, now, serviceVars, sn, dbManager>>

HistoryNext == AddNotification

\* The flight dates, retention days and consent dates of the subscriptions
\* whose expiry is followed.
FlightDates == {0, 3 * DayMs, 10 * DayMs}
RetentionInputs == {1, 5, 15, RetentionDays}
ConsentDates == {0, DayMs, 3 * DayMs}

\* One subscription has been created, for any of the flight dates and with
\* any of the retention days.
ExpiryInit ==
    /\ flight = InitFlight
    /\ fcall = NoCall
    /\ notificationService = NoNotifier
    /\ ncall = NoTrigger
    /\ inflight = NoRequests
    /\ now = 0
    /\ subs \in {[i \in 1..Len(Emails) |->
                     IF i \in LifecycleTargets
                     THEN NewSubscriptionWith(Emails[i], DefaultPreferences, flightDate,
                                              retentionDays, 0)
                     ELSE NewSubscription(Emails[i], DefaultPreferences, 0)] :
                 flightDate \in FlightDates, retentionDays \in RetentionInputs}
    /\ scall = NoSubCall
    /\ rateLimitStore = EmptyStore
    /\ timers = {}
    /\ isEnabled = TRUE
    /\ config = DefaultConfig
    /\ dcall = NoDispatch
    /\ batch = NoBatch
    /\ issued = EmptyStore
    /\ delivered = NoDeliveries
    /\ sn = NoApplication
    /\ dbManager = NewDatabaseManager

\* subscription.gdprCompliance.dataRetentionDays = days, then save().
SetRetentionDays ==
    \E i \in LifecycleTargets, days \in RetentionInputs :
        LET s == [subs[i] EXCEPT !.dataRetentionDays = days]
        IN  /\ subs' = [subs EXCEPT ![i] = preSave(s, FALSE,
                                                   days # subs[i].dataRetentionDays)]
            /\ scall' = [op |-> "save", target |-> i, token |-> None, error |-> None]
            /\ UNCHANGED <<flightVars, now, serviceVars, sn, dbManager>>

\* subscription.gdprCompliance.consentDate = date, then save().
SetConsentDate ==
    \E i \in LifecycleTargets, date \in ConsentDates :
        LET s == [subs[i] EXCEPT !.consentDate = date]
        IN  /\ subs' = [subs EXCEPT ![i] = preSave(s, FALSE, date # subs[i].consentDate)]
            /\ scall' = [op |-> "save", target |-> i, token |-> None, error |-> None]
            /\ UNCHANGED <<flightVars, now, serviceVars, sn, dbManager>>

ExpiryNext == SetRetentionDays \/ SetConsentDate

\* The expiry of a subscription under saves that change its retention inputs.
ExpirySpec == ExpiryInit /\ [][ExpiryNext]_vars

\* The notification history of a subscription under addNotification calls.
HistorySpec == Init /\ [][HistoryNext]_vars

(***************************************************************************)
(* The notification service: actions.                                      *)
(***************************************************************************)
DispatchInit ==
    /\ flight = InitFlight
    /\ fcall = NoCall
    /\ notificationService = NoNotifier
    /\ ncall = NoTrigger
    /\ inflight = NoRequests
    /\ now = 0
    /\ subs \in {[i \in 1..Len(Emails) |->
                     NewSubscription(Emails[i],
                                     IF i = 1 THEN DefaultPreferences ELSE prefs, 0)] :
                 prefs \in DispatchPreferences}
    /\ scall = NoSubCall
    /\ rateLimitStore = EmptyStore
    /\ timers = {}
    /\ isEnabled = TRUE
    /\ config \in Configs
    /\ dcall = NoDispatch
    /\ batch = NoBatch
    /\ issued = EmptyStore
    /\ delivered = NoDeliveries
    /\ sn = NoApplication
    /\ dbManager = NewDatabaseManager

\* The calls of updateRateLimit counted per key: after one more call for each
\* key of keys, and after the keys of keys were deleted from the Map.
Issued(iss, keys) ==
    [k \in DOMAIN iss \cup keys |->
        (IF k \in DOMAIN iss THEN iss[k] ELSE 0) + (IF k \in keys THEN 1 ELSE 0)]

Cleared(iss, keys) == [k \in DOMAIN iss \ keys |-> iss[k]]

\* The Map after the timers of tms have fired.
RECURSIVE fireTimers(_, _)
fireTimers(store, tms) ==
    IF tms = {} THEN store
    ELSE LET tm == CHOOSE x \in tms : TRUE
         IN  fireTimers(StoreDelete(store, tm.key), tms \ {tm})

\* Time passes for the service and the timers that fall due fire; the
\* deliveries counted are those of the current hour and day.
DispatchTick ==
    /\ \E t \in DispatchTimes :
        /\ t > now
        /\ now' = t
        /\ LET due == {tm \in timers : tm.fireAt <= t}
           IN  /\ rateLimitStore' = fireTimers(rateLimitStore, due)
               /\ timers' = timers \ due
               /\ issued' = Cleared(issued, {tm.key : tm \in due})
        /\ delivered' =
             [i \in DOMAIN delivered |->
                 [hour |-> IF t \div HourMs = now \div HourMs
                           THEN delivered[i].hour ELSE 0,
                  day  |-> IF t \div DayMs = now \div DayMs
                           THEN delivered[i].day ELSE 0]]
    /\ dcall' = NoDispatch
    /\ UNCHANGED <<flightVars, subVars, isEnabled, config, batch, sn, dbManager>>

\* Whether the channel accepted the message for the i-th document in a call
\* that invoked it calls[i] times.
Delivered(envs, calls, i) ==
    calls[i] >= 1 /\ ChannelAccepts(envs[i].channel, calls[i])

\* A call of notificationService.notifyStatusChange(flight, oldStatus).
NotifyStatusChange ==
    \E tr \in DispatchTransitions, envs \in DispatchEnvs :
        LET r == notifyStatusChange(subs, tr[1], tr[2], rateLimitStore, config,
                                    isEnabled, envs, now)
        IN  /\ \A i \in DOMAIN subs :
                /\ subs[i].notificationStats.totalSent < MaxNotifications
                /\ delivered[i].day < MaxNotifications
            /\ subs' = r.subs
            /\ dcall' = [NoDispatch EXCEPT !.op = "notifyStatusChange",
                                           !.oldStatus = tr[1],
                                           !.newStatus = tr[2],
                                           !.envs = envs,
                                           !.result = r.result,
                                           !.calls = r.calls]
            /\ delivered' =
                 [i \in DOMAIN delivered |->
                     IF Delivered(envs, r.calls, i)
                     THEN [hour |-> delivered[i].hour + 1, day |-> delivered[i].day + 1]
                     ELSE delivered[i]]
            /\ UNCHANGED <<flightVars, now, scall, rateLimitStore, timers, isEnabled,
                           config, batch, issued, sn, dbManager>>

\* A call of notificationService.updateRateLimit(email).
UpdateRateLimit ==
    \E i \in RateLimitTargets :
        LET r == updateRateLimit(rateLimitStore, timers, subs[i].email, now)
        IN  /\ StoreGet(rateLimitStore, hourlyKey(subs[i].email, now)) < MaxRateCount
            /\ StoreGet(rateLimitStore, dailyKey(subs[i].email, now)) < MaxRateCount
            /\ rateLimitStore' = r.store
            /\ timers' = r.timers
            /\ issued' = Issued(issued, {hourlyKey(subs[i].email, now),
                                         dailyKey(subs[i].email, now)})
            /\ dcall' = [NoDispatch EXCEPT !.op = "updateRateLimit", !.target = i]
            /\ UNCHANGED <<flightVars, now, subVars, isEnabled, config, delivered,
                           batch, sn, dbManager>>

\* A call of notificationService.retryFailedNotification(notificationData) for
\* a message whose first try failed.
RetryFailedNotification ==
    \E behaviour \in ChannelBehaviours \ {"up"} :
        LET r == retryFailedNotification(behaviour, 1, config, 1)
        IN  /\ dcall' = [NoDispatch EXCEPT
                            !.op = "retryFailedNotification",
                            !.envs = <<[channel |-> behaviour, save |-> "resolves"]>>,
                            !.result = [NoResult EXCEPT !.success = r.success,
                                                        !.error = r.error],
                            !.calls = <<r.calls>>]
            /\ UNCHANGED <<flightVars, now, subVars, rateLimitStore, timers,
                           isEnabled, config, delivered, batch, issued, sn, dbManager>>

DispatchNext ==
    \/ DispatchTick
    \/ NotifyStatusChange
    \/ UpdateRateLimit
    \/ RetryFailedNotification

DispatchSpec == DispatchInit /\ [][DispatchNext]_vars

\* A call of notificationService.enable().
Enable ==
    /\ isEnabled' = TRUE
    /\ dcall' = [NoDispatch EXCEPT !.op = "enable"]
    /\ UNCHANGED <<flightVars, now, subVars, rateLimitStore, timers, config,
                   delivered, batch, issued, sn, dbManager>>

\* A call of notificationService.disable().
Disable ==
    /\ isEnabled' = FALSE
    /\ dcall' = [NoDispatch EXCEPT !.op = "disable"]
    /\ UNCHANGED <<flightVars, now, subVars, rateLimitStore, timers, config,
                   delivered, batch, issued, sn, dbManager>>

\* The dispatcher with its switch.
SwitchNext ==
    \/ DispatchTick
    \/ NotifyStatusChange
    \/ UpdateRateLimit
    \/ Enable
    \/ Disable

SwitchSpec == DispatchInit /\ [][SwitchNext]_vars

(***************************************************************************)
(* The database manager: actions.                                          *)
(***************************************************************************)
\* A caller that is not awaiting a connect() calls it.
Connect ==
    \E p \in Callers :
        /\ dbManager.outcome[p] # "awaiting"
        /\ dbManager' = connect(dbManager, p)
        /\ UNCHANGED <<flightVars, now, subVars, serviceVars, sn>>

\* The mongoose.connect awaited by _attemptConnection resolves.
MongooseConnectResolves ==
    /\ dbManager.pc = "connecting"
    /\ dbManager' = connectResolved(dbManager)
    /\ UNCHANGED <<flightVars, now, subVars, serviceVars, sn>>

\* The mongoose.connect awaited by _attemptConnection rejects.
MongooseConnectRejects ==
    /\ dbManager.pc = "connecting"
    /\ dbManager' = connectRejected(dbManager)
    /\ UNCHANGED <<flightVars, now, subVars, serviceVars, sn>>

\* The delay between two attempts is over.
DelayElapses ==
    /\ dbManager.pc = "delaying"
    /\ dbManager' = delayElapsed(dbManager)
    /\ UNCHANGED <<flightVars, now, subVars, serviceVars, sn>>

\* The connection emits 'disconnected': the handler set up after the first
\* connection clears isConnected.
Disconnected ==
    /\ dbManager.live
    /\ dbManager' = [dbManager EXCEPT !.isConnected = FALSE, !.live = FALSE]
    /\ UNCHANGED <<flightVars, now, subVars, serviceVars, sn>>

DatabaseNext ==
    \/ Connect
    \/ MongooseConnectResolves
    \/ MongooseConnectRejects
    \/ DelayElapses
    \/ Disconnected

DatabaseSpec == Init /\ [][DatabaseNext]_vars

(***************************************************************************)
(* The rate limiter: actions.                                              *)
(***************************************************************************)
RateInit ==
    /\ flight = InitFlight
    /\ fcall = NoCall
    /\ notificationService = NoNotifier
    /\ ncall = NoTrigger
    /\ inflight = NoRequests
    /\ now = 0
    /\ subs = InitSubs
    /\ scall = NoSubCall
    /\ rateLimitStore = EmptyStore
    /\ timers = {}
    /\ isEnabled = TRUE
    /\ config \in RateConfigs
    /\ dcall = NoDispatch
    /\ batch = NoBatch
    /\ issued = EmptyStore
    /\ delivered = NoDeliveries
    /\ sn = NoApplication
    /\ dbManager = NewDatabaseManager

\* Time passes; the timers that fall due fire when the event loop runs them.
RateTick ==
    /\ \E t \in RateTimes : t > now /\ now' = t
    /\ dcall' = NoDispatch
    /\ UNCHANGED <<flightVars, subVars, rateLimitStore, timers, isEnabled, config,
                   delivered, batch, issued, sn, dbManager>>

\* The callback of one setTimeout of updateRateLimit runs, no earlier than
\* its delay after the call.
FireTimer ==
    \E tm \in timers :
        /\ tm.fireAt <= now
        /\ rateLimitStore' = StoreDelete(rateLimitStore, tm.key)
        /\ timers' = timers \ {tm}
        /\ issued' = Cleared(issued, {tm.key})
        /\ dcall' = [NoDispatch EXCEPT !.op = "setTimeout"]
        /\ UNCHANGED <<flightVars, now, subVars, isEnabled, config, delivered, batch,
                       sn, dbManager>>

\* A call of notificationService.checkRateLimit(email).
CheckRateLimit ==
    \E email \in Recipients :
        /\ dcall' = [NoDispatch EXCEPT
                        !.op = "checkRateLimit",
                        !.email = email,
                        !.returned = checkRateLimit(rateLimitStore, config, email, now)]
        /\ UNCHANGED <<flightVars, now, subVars, rateLimitStore, timers, isEnabled,
                       config, delivered, batch, issued, sn, dbManager>>

\* A call of notificationService.updateRateLimit(email) with any address.
UpdateRateLimitOf ==
    \E email \in Recipients :
        LET r == updateRateLimit(rateLimitStore, timers, email, now)
        IN  /\ StoreGet(issued, dailyKey(email, now)) < MaxUpdates
            /\ Cardinality(r.timers) <= MaxTimers
            /\ rateLimitStore' = r.store
            /\ timers' = r.timers
            /\ issued' = Issued(issued, {hourlyKey(email, now), dailyKey(email, now)})
            /\ dcall' = [NoDispatch EXCEPT !.op = "updateRateLimit", !.email = email]
            /\ UNCHANGED <<flightVars, now, subVars, isEnabled, config, delivered,
                           batch, sn, dbManager>>

\* A call of notificationService.resetRateLimit(email).
ResetRateLimit ==
    \E email \in Recipients :
        /\ rateLimitStore' = resetRateLimit(rateLimitStore, email, now)
        /\ issued' = Cleared(issued, {hourlyKey(email, now), dailyKey(email, now)})
        /\ dcall' = [NoDispatch EXCEPT !.op = "resetRateLimit", !.email = email]
        /\ UNCHANGED <<flightVars, now, subVars, timers, isEnabled, config, delivered,
                       batch, sn, dbManager>>

\* A call of notificationService.processDataDeletionRequest(email).
ProcessDataDeletionRequest ==
    \E email \in DeletionEmails, saving \in SaveOutcomes :
        LET r == processDataDeletionRequest(subs, rateLimitStore, email, saving, now)
        IN  /\ subs' = r.subs
            /\ rateLimitStore' = r.store
            /\ issued' = Cleared(issued, r.deleted)
            /\ dcall' = [NoDispatch EXCEPT !.op = "processDataDeletionRequest",
                                           !.email = email,
                                           !.result = r.result]
            /\ UNCHANGED <<flightVars, now, scall, timers, isEnabled, config,
                           delivered, batch, sn, dbManager>>

\* Data deletion requests between calls of updateRateLimit.
DeletionNext ==
    \/ ProcessDataDeletionRequest
    \/ UpdateRateLimitOf
    \/ RateTick

DeletionSpec == RateInit /\ [][DeletionNext]_vars

RateNext ==
    \/ RateTick
    \/ FireTimer
    \/ CheckRateLimit
    \/ UpdateRateLimitOf
    \/ ResetRateLimit

RateSpec == RateInit /\ [][RateNext]_vars

\* notifyStatusChange up to the point its query has resolved: the documents
\* found are held by the call while it awaits each send and each save.
FindActiveSubscriptions ==
    \E tr \in DispatchTransitions, envs \in DispatchEnvs :
        LET docs == foundDocuments(subs)
        IN  /\ batch.pc # "loop"
            /\ isEnabled
            /\ \A i \in DOMAIN subs :
                /\ subs[i].notificationStats.totalSent < MaxNotifications
                /\ delivered[i].day < MaxNotifications
            /\ batch' = [NoBatch EXCEPT
                            !.pc = IF docs = <<>> THEN "done" ELSE "loop",
                            !.oldStatus = tr[1],
                            !.newStatus = tr[2],
                            !.envs = envs,
                            !.found = docs,
                            !.pos = 1,
                            !.result = IF docs = <<>>
                                       THEN [NoResult EXCEPT
                                                !.success = TRUE,
                                                !.message = "No subscriptions found"]
                                       ELSE [NoResult EXCEPT !.success = TRUE]]
            /\ dcall' = [NoDispatch EXCEPT !.op = "findActiveByFlight",
                                           !.oldStatus = tr[1],
                                           !.newStatus = tr[2],
                                           !.envs = envs]
            /\ UNCHANGED <<flightVars, now, subVars, rateLimitStore, timers,
                           isEnabled, config, delivered, issued, sn, dbManager>>

\* One pass of the for loop of notifyStatusChange: the next document found is
\* processed as it was loaded, and the save writes to the stored document.
\* The pass that ends the loop resolves the call.
ProcessSubscription ==
    /\ batch.pc = "loop"
    /\ LET e == batch.found[batch.pos]
           i == e.index
           o == subscriptionCatch(
                    subscriptionTry(e.doc, batch.oldStatus, batch.newStatus,
                                    rateLimitStore, config, batch.envs[i], now))
           result == [batch.result EXCEPT
                         !.notificationsSent = @ + o.sent,
                         !.notificationsFailed = @ + o.failed,
                         !.details = @ \o o.details]
           calls == [batch.calls EXCEPT ![i] = o.calls]
           last == batch.pos = Len(batch.found)
       IN  /\ subs' = [subs EXCEPT ![i] = saveNotificationStats(@, e.doc, o.sub)]
           /\ batch' = [batch EXCEPT !.pc = IF last THEN "done" ELSE "loop",
                                     !.pos = @ + 1,
                                     !.result = result,
                                     !.calls = calls]
           /\ dcall' = IF last
                       THEN [NoDispatch EXCEPT !.op = "notifyStatusChange",
                                               !.oldStatus = batch.oldStatus,
                                               !.newStatus = batch.newStatus,
                                               !.envs = batch.envs,
                                               !.result = result,
                                               !.calls = calls]
                       ELSE [NoDispatch EXCEPT !.op = "sendStatusChangeEmail",
                                               !.target = i]
           /\ delivered' =
                [j \in DOMAIN delivered |->
                    IF j = i /\ Delivered(batch.envs, calls, i)
                    THEN [hour |-> delivered[j].hour + 1, day |-> delivered[j].day + 1]
                    ELSE delivered[j]]
    /\ UNCHANGED <<flightVars, now, scall, rateLimitStore, timers, isEnabled,
                   config, issued, sn, dbManager>>

\* A dispatch whose awaits let calls of unsubscribeUser and reactivate in.
BatchNext ==
    \/ FindActiveSubscriptions
    \/ ProcessSubscription
    \/ UnsubscribeUser
    \/ Reactivate

BatchSpec == Init /\ [][BatchNext]_vars

\* shouldNotifyStatusChange applied to every combination of preference flags
\* and statuses.
DecisionInit ==
    /\ flight = InitFlight
    /\ fcall = NoCall
    /\ notificationService = NoNotifier
    /\ ncall = NoTrigger
    /\ inflight = NoRequests
    /\ now = 0
    /\ subs = InitSubs
    /\ scall = NoSubCall
    /\ rateLimitStore = EmptyStore
    /\ timers = {}
    /\ isEnabled = TRUE
    /\ config = DefaultConfig
    /\ dcall = NoDispatch
    /\ batch = NoBatch
    /\ issued = EmptyStore
    /\ delivered = NoDeliveries
    /\ sn \in [prefs : PreferenceSets, oldStatus : FLIGHT_STATUSES,
               newStatus : FLIGHT_STATUSES, applied : {FALSE}, result : {FALSE}]
    /\ dbManager = NewDatabaseManager

ShouldNotifyStatusChange ==
    /\ ~sn.applied
    /\ sn.oldStatus # None
    /\ sn' = [sn EXCEPT !.applied = TRUE,
                        !.result = shouldNotifyStatusChange(
                                       [notificationPreferences |-> sn.prefs],
                                       sn.oldStatus, sn.newStatus)]
    /\ UNCHANGED <<flightVars, now, subVars, serviceVars, dbManager>>

DecisionNext == ShouldNotifyStatusChange

DecisionSpec == DecisionInit /\ [][DecisionNext]_vars

Next == DatabaseNext \/ SwitchNext \/ DeletionNext \/ RateNext \/ BatchNext \/ ExpiryNext \/ HistoryNext \/ ConcurrentNext \/ ModelNext \/ RecordNext \/ StampNext \/ SubNext \/ DispatchNext \/ DecisionNext

Spec == Init /\ [][Next]_vars

(***************************************************************************)
(* The flight status state machine: the claims.                            *)
(***************************************************************************)
\* The allowed-transition table as the specification prints it.
AllowedTable ==
    {<<"Scheduled", "Delayed">>, <<"Scheduled", "Boarding">>, <<"Scheduled", "Cancelled">>,
     <<"Delayed", "Boarding">>, <<"Delayed", "Cancelled">>,
     <<"Boarding", "Departed">>, <<"Boarding", "Cancelled">>,
     <<"Departed", "In-Air">>, <<"Departed", "Diverted">>,
     <<"In-Air", "Arrived">>, <<"In-Air", "Diverted">>,
     <<"Diverted", "Arrived">>}

AllowedFrom(s) == {n \in FLIGHT_STATUSES : <<s, n>> \in AllowedTable}

TerminalStatuses == {"Arrived", "Cancelled"}

\* This step is a call of FlightService.updateFlightStatus (the clock stands
\* still during a call, and the call is recorded in fcall).
ServiceCallStep == now' = now /\ fcall'.op = "updateFlightStatus"

\* This step is a direct call of the model's flight.updateStatus.
ModelCallStep == now' = now /\ fcall'.op = "updateStatus"

\* C1: a transition request for a pair (current, requested) of distinct
\* statuses that is not an edge of the allowed-transition table fails with the
\* FlightStatusError carrying current, requested and the allowed set, and
\* leaves the whole flight (status, history, actual times, delay) unchanged.
C1_InvalidTransitionRejected ==
    [][(/\ ServiceCallStep
        /\ fcall'.requested \in FLIGHT_STATUSES
        /\ fcall'.requested # flight.current
        /\ <<flight.current, fcall'.requested>> \notin AllowedTable)
       => (/\ fcall'.error = [name |-> "FlightStatusError",
                              currentStatus |-> flight.current,
                              requestedStatus |-> fcall'.requested,
                              allowedTransitions |-> AllowedFrom(flight.current)]
           /\ flight' = flight)]_vars

\* A refused transition asked of a flight that has departed (history, actual
\* departure time and delay are all set).
C1_Witness ==
    /\ fcall.op = "updateFlightStatus"
    /\ fcall.error.name = "FlightStatusError"
    /\ fcall.requested \in FLIGHT_STATUSES \ {flight.current}
    /\ flight.current = "Departed"
    /\ flight.depActual # NoTime
    /\ Len(flight.history) >= 2

\* C8 (as claimed): a request whose requested status equals the current status
\* fails with the invalid-transition error.
C8_SameStatusFails ==
    [][(ServiceCallStep /\ fcall'.requested = flight.current)
       => fcall'.error.name = "FlightStatusError"]_vars

\* C8 (amended): a request whose requested status equals the current status
\* raises no invalid-transition error; it is no status change: the current
\* status and the history are left as they are.
C8_SameStatusIsNoChange ==
    [][(ServiceCallStep /\ fcall'.requested = flight.current)
       => (/\ fcall'.error = NoError
           /\ flight'.current = flight.current
           /\ flight'.history = flight.history)]_vars

\* A same-status request was served on a flight that already has a history:
\* the history entry count shows no transition into the current status twice.
C8_Witness ==
    /\ fcall.op = "updateFlightStatus"
    /\ fcall.requested = flight.current
    /\ fcall.error = NoError
    /\ flight.current = "Boarding"
    /\ Len(flight.history) = 1
    /\ flight.delayMinutes = 2

\* C9: once the current status is Arrived or Cancelled, no transition request
\* through FlightService.updateFlightStatus changes the current status or
\* appends to the history.
C9_TerminalStatuses ==
    [][(ServiceCallStep /\ flight.current \in TerminalStatuses)
       => (flight'.current = flight.current /\ flight'.history = flight.history)]_vars

\* A transition was asked of an arrived flight, and refused.
C9_Witness ==
    /\ flight.current = "Arrived"
    /\ fcall.op = "updateFlightStatus"
    /\ fcall.error.name = "FlightStatusError"
    /\ fcall.error.currentStatus = "Arrived"
    /\ Len(flight.history) >= 4

\* C10 (as claimed): every change of the current status by any exposed
\* operation, the model's updateStatus called directly included, follows an
\* edge of the allowed-transition table.
C10_EveryChangeFollowsAnEdge ==
    [][flight'.current # flight.current
       => <<flight.current, flight'.current>> \in AllowedTable]_vars

\* C10 (amended): every change of the current status made through
\* FlightService.updateFlightStatus follows an edge of the table; the model's
\* updateStatus called directly checks only that the new status is one of the
\* eight statuses, and then makes it the current status whatever the current
\* one is, appending one history entry.
C10_OnlyServiceValidates ==
    [][/\ (ServiceCallStep /\ flight'.current # flight.current)
          => <<flight.current, flight'.current>> \in AllowedTable
       /\ (ModelCallStep /\ fcall'.requested \in FLIGHT_STATUSES)
          => (/\ flight'.current = fcall'.requested
              /\ Len(flight'.history) = Len(flight.history) + 1)
       /\ (ModelCallStep /\ fcall'.requested \notin FLIGHT_STATUSES)
          => flight' = flight]_vars

\* A direct call moved the flight somewhere the table does not allow, and the
\* service then made a transition from there.
C10_Witness ==
    /\ Len(flight.history) = 2
    /\ <<flight.history[1].status, flight.history[2].status>> \notin AllowedTable
    /\ flight.history[1].updatedBy = "System"
    /\ flight.history[2].updatedBy = "TestUser"
    /\ fcall.op = "updateFlightStatus"
    /\ fcall.error = NoError

(***************************************************************************)
(* The subscription lifecycle: the claims.                                 *)
(***************************************************************************)
\* This step is a call of subscription.verify on subscription i.
VerifyStep(i) == now' = now /\ scall'.op = "verify" /\ scall'.target = i

\* C4: a subscription is verified at most once: once it is verified, every
\* later verify call, the original correct token included, fails with the
\* already-verified error and changes nothing, and no operation makes the
\* verified flag false again.
C4_VerifiedExactlyOnce ==
    [][\A i \in DOMAIN subs :
          subs[i].isVerified
          => (/\ subs'[i].isVerified
              /\ VerifyStep(i)
                 => (/\ scall'.error = "Subscription is already verified"
                     /\ subs'[i] = subs[i]))]_vars

\* A verified subscription was asked to verify again with the original token.
C4_Witness ==
    /\ subs[1].isVerified
    /\ subs[1].verifiedAt # NoTime
    /\ scall.op = "verify"
    /\ scall.token = VerificationToken
    /\ scall.error = "Subscription is already verified"

(***************************************************************************)
(* The notification service: the claims.                                   *)
(***************************************************************************)
\* The step is a call of notifyStatusChange.
DispatchStep == dcall'.op = "notifyStatusChange"

\* The state is the one a call of notifyStatusChange has just left.
Dispatched == dcall.op = "notifyStatusChange"

\* The entries of the result's details for the i-th stored document.
DetailsOf(call, i) ==
    {k \in DOMAIN call.result.details : call.result.details[k].email = Emails[i]}

\* C2: per-recipient rate limits are enforced across dispatches: within one
\* clock-hour bucket a recipient is delivered at most maxPerHour
\* notifications and within one day bucket at most maxPerDay, without any
\* manual call of updateRateLimit.
C2_RateLimitsEnforced ==
    \A i \in DOMAIN delivered :
        /\ delivered[i].hour <= config.maxPerHour
        /\ delivered[i].day <= config.maxPerDay

\* The preference decision table as the specification prints it.
DecisionTable(p, oldStatus, newStatus) ==
    IF oldStatus = newStatus THEN FALSE
    ELSE IF newStatus = "Boarding" THEN p.boarding_calls \/ p.status_changes
    ELSE IF newStatus = "Delayed" THEN p.delays \/ p.status_changes
    ELSE IF newStatus = "Cancelled" THEN p.cancellations \/ p.status_changes
    ELSE p.status_changes

\* C3: shouldNotifyStatusChange implements the preference decision table for
\* every combination of preference flags and statuses; in particular a
\* subscriber with status_changes disabled but boarding_calls, delays or
\* cancellations enabled is still notified of that specific status.
C3_DecisionTableImplemented ==
    sn.applied => (sn.result <=> DecisionTable(sn.prefs, sn.oldStatus, sn.newStatus))

\* C5: when the channel fails on every try, a dispatch to a subscription
\* invokes the channel exactly 1 + retryAttempts times before it records the
\* final failure.
C5_ChannelTriedUntilBudgetSpent ==
    Dispatched =>
        \A i \in DOMAIN dcall.calls :
            (dcall.envs[i].channel = "down" /\ dcall.calls[i] >= 1)
                => dcall.calls[i] = 1 + config.retryAttempts

\* C6: a transient delivery failure is retried inside the dispatch: when the
\* channel fails on the first try and succeeds on the second, within the
\* retryAttempts budget, the result for that subscription is a success and
\* the channel was invoked once per try.
C6_TransientFailureRetried ==
    Dispatched =>
        \A i \in DOMAIN dcall.calls :
            (/\ dcall.envs[i] = [channel |-> "flaky", save |-> "resolves"]
             /\ dcall.calls[i] >= 1
             /\ config.retryAttempts >= 1)
                => /\ dcall.calls[i] = 2
                   /\ \E k \in DetailsOf(dcall, i) :
                        dcall.result.details[k].status = "sent"

\* C7: per-subscription isolation in a dispatch batch: an exception raised
\* while recording for one subscription is recorded as an error result for
\* that subscription only, every subscription of the batch that passes the
\* preference filter and the rate limit is still sent to and has exactly one
\* entry of its own in the details, and the call returns success.
C7_BatchIsolation ==
    [][DispatchStep =>
        /\ dcall'.result.success = TRUE
        /\ \A i \in findActiveByFlight(subs) :
            (/\ shouldNotifyStatusChange(subs[i], dcall'.oldStatus, dcall'.newStatus)
             /\ checkRateLimit(rateLimitStore, config, subs[i].email, now))
                => /\ dcall'.calls[i] = 1
                   /\ Cardinality(DetailsOf(dcall', i)) = 1
                   /\ \A k \in DetailsOf(dcall', i) :
                        dcall'.result.details[k].status =
                            IF dcall'.envs[i].save = "rejects" THEN "error"
                            ELSE IF dcall'.envs[i].channel = "up" THEN "sent"
                            ELSE "failed"]_vars

\* A batch of two in which recording for the first subscription threw and the
\* second was still sent to.
C7_Witness ==
    /\ Dispatched
    /\ dcall.envs[1].save = "rejects"
    /\ dcall.result.success = TRUE
    /\ dcall.result.notificationsFailed >= 1
    /\ \E k \in DetailsOf(dcall, 1) : dcall.result.details[k].status = "error"
    /\ \E k \in DetailsOf(dcall, 2) : dcall.result.details[k].status = "sent"

(***************************************************************************)
(* The flight record: the claims.                                          *)
(***************************************************************************)
\* This step is a successful transition: a service call that resolved for a
\* status other than the current one, or a direct call of updateStatus with a
\* status of the enumeration.
TransitionStep ==
    \/ /\ ServiceCallStep
       /\ fcall'.error = NoError
       /\ fcall'.requested # None
       /\ fcall'.requested # flight.current
    \/ /\ ModelCallStep
       /\ fcall'.requested \in FLIGHT_STATUSES

C12_CallerReasonStored ==
    [][(TransitionStep /\ ServiceCallStep)
        => LET e == flight'.history[Len(flight'.history)]
           IN  \E updateData \in UpdateDatas, updatedBy \in Actors :
                  /\ updateData.status = fcall'.requested
                  /\ e.reason = updateData.reason
                  /\ e.updatedBy = updatedBy
                  /\ e.metadata = updateData.metadata]_vars

\* C13: the delay is never negative: in every state of a flight, after any
\* sequence of status transitions, explicit delay updates through
\* updateFlightStatus and addDelay calls, the stored delay.minutes is >= 0.
C13_DelayNeverNegative == flight.delayMinutes >= 0

\* The delay as the specification recomputes it for flight f at time t.
RecomputedDelay(f, t) ==
    LET ms == IF f.depActual # NoTime THEN f.depActual - f.schedDep
              ELSE IF f.depEstimated # NoTime THEN f.depEstimated - f.schedDep
              ELSE IF t > f.schedDep THEN t - f.schedDep
              ELSE 0
    IN  Max(0, ms \div MsPerMinute)

\* C14: after every successful transition the stored delay equals the value
\* recomputed from the stored times (actual departure, else estimated
\* departure, else now when past the scheduled departure, else 0; in whole
\* minutes, never negative), also when the request carries other fields.
C14_DelayRecomputed ==
    [][(TransitionStep /\ ServiceCallStep)
        => flight'.delayMinutes = RecomputedDelay(flight', now)]_vars

C17_ScheduleAndRouteInvariant ==
    flight.isActive => /\ flight.schedDep < flight.schedArr
                       /\ flight.origin # flight.destination


(***************************************************************************)
(* The notification trigger: the claims.                                   *)
(***************************************************************************)
\* C18: after a successful status transition through updateFlightStatus on
\* a service with a notification service attached, the dispatcher is
\* invoked, once, after the transition has been persisted, with the updated
\* flight, the old status and the actor, and the invocation reaches a method
\* the attached service has, so that the dispatch runs.
C18_DispatcherInvokedAfterTransition ==
    [][(TransitionStep /\ ServiceCallStep /\ notificationService.kind # None)
        => /\ ncall'.invoked
           /\ ncall'.method \in notificationService.methods
           /\ ncall'.flightStatus = flight'.current
           /\ ncall'.oldStatus = flight.current
           /\ ncall'.updatedBy \in Actors]_vars

\* A call of updateFlightStatus whose notification trigger threw.
TriggerThrewStep == ServiceCallStep /\ ncall'.thrown # None

\* C19: a failure of the notification dispatch never fails or rolls back a
\* status transition: when the dispatcher throws after a valid transition,
\* updateFlightStatus still resolves and the new status and its history
\* entry are the stored ones.
C19_TriggerFailureSwallowed ==
    [][TriggerThrewStep
        => /\ fcall'.error = NoError
           /\ flight'.current = fcall'.requested
           /\ flight'.current # flight.current
           /\ Len(flight'.history) = Len(flight.history) + 1
           /\ flight'.history[Len(flight'.history)].status = flight.current
           /\ ncall'.warned]_vars

\* The attached notifier rejected, the call resolved and the flight is in
\* the requested status.
C19_Witness ==
    /\ ncall.thrown = "Notification failed"
    /\ ncall.warned
    /\ fcall.op = "updateFlightStatus"
    /\ fcall.error = NoError
    /\ flight.current = fcall.requested
    /\ Len(flight.history) >= 1


(***************************************************************************)
(* The verification attempts: the claims.                                  *)
(***************************************************************************)
\* C20 as stated: the attempt count never exceeds 5, and once it has reached
\* 5 every verify call, the correct token included, fails with the
\* max-attempts error and leaves the subscription unverified with the count
\* unchanged.
C20_MaxAttemptsErrorAlways ==
    [][\A i \in DOMAIN subs :
          /\ subs'[i].verificationAttempts <= 5
          /\ (subs[i].verificationAttempts = 5 /\ VerifyStep(i))
             => (/\ scall'.error = "Maximum verification attempts exceeded"
                 /\ ~subs'[i].isVerified
                 /\ subs'[i].verificationAttempts = 5)]_vars

\* C20, amended: the attempt count never exceeds 5, and once it has reached
\* 5 every verify call, the correct token included, fails and leaves the
\* subscription unverified and unchanged; the error is the max-attempts
\* error while the token has not expired and the token-expired error once
\* it has.
C20_AttemptsCapped ==
    [][\A i \in DOMAIN subs :
          /\ subs'[i].verificationAttempts <= 5
          /\ (subs[i].verificationAttempts = 5 /\ VerifyStep(i))
             => (/\ scall'.error =
                       IF subs[i].verificationTokenExpires # NoTime
                          /\ now > subs[i].verificationTokenExpires
                       THEN "Verification token has expired"
                       ELSE "Maximum verification attempts exceeded"
                 /\ ~subs'[i].isVerified
                 /\ subs'[i] = subs[i])]_vars

\* After five wrong tokens the correct token was refused for the attempts made.
C20_Witness ==
    /\ subs[1].verificationAttempts = 5
    /\ ~subs[1].isVerified
    /\ scall.op = "verify"
    /\ scall.target = 1
    /\ scall.token = VerificationToken
    /\ scall.error = "Maximum verification attempts exceeded"


(***************************************************************************)
(* Overlapping requests: the claims.                                       *)
(***************************************************************************)
\* C16: concurrent transition requests on the same flight are serialized:
\* whatever the interleaving of two updateFlightStatus calls, each applied
\* transition is an allowed one from the status stored when it is applied,
\* no history entry is lost, and a flight never leaves a terminal status.
C16_TransitionsSerialized ==
    [][/\ flight'.current # flight.current
          => validateStatusTransition(flight.current, flight'.current)
       /\ flight.current \in TerminalStatuses => flight'.current = flight.current
       /\ Len(flight'.history) >= Len(flight.history)
       /\ SubSeq(flight'.history, 1, Len(flight.history)) = flight.history]_vars


(***************************************************************************)
(* Verify, unsubscribe and reactivate: the claims.                         *)
(***************************************************************************)
\* C21: a failed verify never verifies: on an unverified, unexpired
\* subscription with fewer than 5 attempts a wrong token increments the
\* attempt count by exactly one, fails with the invalid-token error and
\* changes nothing else; a verify after the token expiry fails with the
\* token-expired error and changes nothing, whatever the attempt count.
C21_FailedVerifyNeverVerifies ==
    [][\A i \in DOMAIN subs :
          (VerifyStep(i) /\ ~subs[i].isVerified)
          => LET s == subs[i]
                 expired == s.verificationTokenExpires # NoTime
                            /\ now > s.verificationTokenExpires
             IN  /\ expired
                    => (/\ scall'.error = "Verification token has expired"
                        /\ subs'[i] = s)
                 /\ (~expired /\ s.verificationAttempts < 5
                              /\ scall'.token # s.verificationToken)
                    => (/\ scall'.error = "Invalid verification token"
                        /\ subs'[i] = [s EXCEPT !.verificationAttempts = @ + 1]
                        /\ ~subs'[i].isVerified)]_vars

\* After five wrong tokens and the expiry of the token, a verify was refused
\* for the expiry.
C21_Witness ==
    /\ scall.op = "verify"
    /\ scall.target = 1
    /\ scall.error = "Verification token has expired"
    /\ subs[1].verificationAttempts = 5
    /\ ~subs[1].isVerified
    /\ now > subs[1].verificationTokenExpires

\* This step is a call of subscription.unsubscribeUser on subscription i.
UnsubscribeStep(i) == now' = now /\ scall'.op = "unsubscribeUser" /\ scall'.target = i

\* C22: unsubscribing without a token is permitted only for administrative
\* callers: an unsubscribe that succeeds for a caller who is not one (its
\* reason is not admin_action) carried the matching unsubscribe token.
C22_TokenRequiredUnlessAdmin ==
    [][\A i \in DOMAIN subs :
          (/\ UnsubscribeStep(i)
           /\ scall'.error = None
           /\ subs'[i].reason # "admin_action")
          => scall'.token = subs[i].unsubscribeToken]_vars

\* C23: a rejected unsubscribe changes nothing: on an already unsubscribed
\* subscription it fails with the already-unsubscribed error, with a
\* provided token that does not match it fails with the invalid-token
\* error, and in both cases the document is left as it was.
C23_RejectedUnsubscribeChangesNothing ==
    [][\A i \in DOMAIN subs :
          UnsubscribeStep(i)
          => LET s == subs[i]
                 provided == scall'.token # None /\ scall'.token # ""
             IN  /\ s.isUnsubscribed
                    => (/\ scall'.error = "Already unsubscribed"
                        /\ subs'[i] = s)
                 /\ (~s.isUnsubscribed /\ provided /\ scall'.token # s.unsubscribeToken)
                    => (/\ scall'.error = "Invalid unsubscribe token"
                        /\ subs'[i] = s)]_vars

\* An unsubscribed subscription was asked to unsubscribe again, a day later
\* and with the right token, and kept the time of its unsubscription.
C23_Witness ==
    /\ scall.op = "unsubscribeUser"
    /\ scall.target = 1
    /\ scall.token = UnsubscribeToken
    /\ scall.error = "Already unsubscribed"
    /\ subs[1].isUnsubscribed
    /\ subs[1].unsubscribedAt # NoTime
    /\ subs[1].unsubscribedAt < now

\* This step is a call of subscription.reactivate on subscription i.
ReactivateStep(i) == now' = now /\ scall'.op = "reactivate" /\ scall'.target = i

C26_ReactivateOnlyFromUnsubscribed ==
    [][\A i \in DOMAIN subs :
          ReactivateStep(i)
          => LET s == subs[i]
                 expired == s.expiresAt # NoTime /\ now > s.expiresAt
             IN  /\ ~s.isUnsubscribed
                    => (/\ scall'.error = "Subscription is not unsubscribed"
                        /\ subs'[i] = s)
                 /\ (s.isUnsubscribed /\ ~expired)
                    => (/\ scall'.error = None
                        /\ ~subs'[i].isUnsubscribed
                        /\ subs'[i].unsubscribedAt = NoTime
                        /\ subs'[i].reason = None
                        /\ subs'[i].feedback = None
                        /\ subs'[i].isActive
                        /\ subs'[i].status =
                              IF s.isVerified THEN "active" ELSE "pending")]_vars

\* A subscription that was never verified was unsubscribed and reactivated,
\* and is Pending again.
C26_Witness ==
    /\ scall.op = "reactivate"
    /\ scall.target = 1
    /\ scall.error = None
    /\ ~subs[1].isVerified
    /\ subs[1].status = "pending"
    /\ subs[1].isActive
    /\ ~subs[1].isUnsubscribed


AddNotificationStep(i) ==
    now' = now /\ scall'.op = "addNotification" /\ scall'.target = i

\* C27: the notification history is bounded: after any sequence of
\* addNotification calls it never holds more than 100 entries, and when an
\* append makes it exceed 100 exactly the 50 most recent entries remain, in
\* their oldest-first order, with the record just added last.
C27_HistoryBounded ==
    [][\A i \in DOMAIN subs :
          AddNotificationStep(i)
          => LET h  == subs[i].notificationStats.notificationHistory
                 h2 == subs'[i].notificationStats.notificationHistory
             IN  /\ Len(h2) <= 100
                 /\ Len(h2) >= 1
                 /\ h2[Len(h2)].messageId = scall'.token
                 /\ IF Len(h) + 1 > 100
                    THEN /\ Len(h2) = 50
                         /\ \A k \in 1..49 : h2[k] = h[Len(h) - 49 + k]
                    ELSE /\ Len(h2) = Len(h) + 1
                         /\ SubSeq(h2, 1, Len(h)) = h]_vars

\* The 101st addNotification has cut the history back to the messages 52 to 101.
C27_Witness ==
    /\ scall.op = "addNotification"
    /\ subs[1].notificationStats.totalSent = 101
    /\ Len(subs[1].notificationStats.notificationHistory) = 50
    /\ subs[1].notificationStats.notificationHistory[1].messageId = "52"
    /\ subs[1].notificationStats.notificationHistory[50].messageId = "101"


(***************************************************************************)
(* The expiry of a subscription: the claims.                               *)
(***************************************************************************)
\* This step is a save of subscription i after a write to its retention inputs.
SaveStep(i) == now' = now /\ scall'.op = "save" /\ scall'.target = i

\* The earlier of (flight date + 7 days) and (consent date + retention days).
EarlierOfBoth(s) ==
    Min(s.flightDate + 7 * DayMs, s.consentDate + s.dataRetentionDays * DayMs)

\* C28 as stated: at creation and after every change of consent date or
\* retention days, expiresAt equals the earlier of (flight date + 7 days)
\* and (consent date + retention days).
C28_ExpiryIsEarlierOfBoth ==
    \A i \in DOMAIN subs : subs[i].expiresAt = EarlierOfBoth(subs[i])

\* C28, amended: at creation expiresAt equals the earlier of (flight date +
\* 7 days) and (consent date + retention days); after a change of consent
\* date or retention days it equals the earlier of its previous value and
\* the new (consent date + retention days).
C28_ExpiryTightenedOnChange ==
    /\ \A i \in DOMAIN subs : subs[i].expiresAt = EarlierOfBoth(subs[i])
    /\ [][\A i \in DOMAIN subs :
             SaveStep(i)
             => subs'[i].expiresAt =
                   Min(subs[i].expiresAt,
                       subs'[i].consentDate + subs'[i].dataRetentionDays * DayMs)]_vars

\* A consent date and retention days written after creation have brought the
\* expiry forward to their sum, ahead of the week after the flight.
C28_Witness ==
    /\ scall.op = "save"
    /\ subs[1].consentDate = DayMs
    /\ subs[1].dataRetentionDays = 5
    /\ subs[1].expiresAt = 6 * DayMs
    /\ subs[1].expiresAt < subs[1].flightDate + 7 * DayMs

\* C29: expiry only tightens: across any sequence of saves that change the
\* consent date or the retention days after creation expiresAt never
\* increases, a later increase of retention days included.
C29_ExpiryOnlyTightens ==
    [][\A i \in DOMAIN subs : subs'[i].expiresAt <= subs[i].expiresAt]_vars

\* The retention days were raised from 1 to 20 and the expiry stayed at the
\* day after the consent, before both dates that the inputs now give.
C29_Witness ==
    /\ scall.op = "save"
    /\ subs[1].dataRetentionDays = RetentionDays
    /\ subs[1].expiresAt = DayMs
    /\ subs[1].expiresAt < EarlierOfBoth(subs[1])

\* The matched subscriptions a dispatch from this state would notify whose
\* hourly or daily counter has reached the configured maximum.
RateLimited ==
    {i \in findActiveByFlight(subs) :
        \/ StoreGet(rateLimitStore, hourlyKey(subs[i].email, now)) >= config.maxPerHour
        \/ StoreGet(rateLimitStore, dailyKey(subs[i].email, now)) >= config.maxPerDay}

\* The per-subscription loop of the dispatch the step made, run over the
\* matched subscriptions other than the rate-limited ones.
LoopWithoutRateLimited ==
    processSubscriptions(1,
        [subs |-> subs, notificationsSent |-> 0, notificationsFailed |-> 0,
         details |-> <<>>, calls |-> [i \in DOMAIN subs |-> 0], thrown |-> None],
        findActiveByFlight(subs) \ RateLimited,
        [oldStatus |-> dcall'.oldStatus, newStatus |-> dcall'.newStatus,
         store |-> rateLimitStore, cfg |-> config, envs |-> dcall'.envs, t |-> now])

\* C30: a rate-limited recipient is skipped, not failed: when checkRateLimit
\* is false for a subscription in a dispatch, the delivery channel is not
\* invoked for it, its notification statistics and history are not changed,
\* one detail entry with status rate_limited is recorded, and neither
\* notificationsSent nor notificationsFailed is incremented for it.
C30_RateLimitedSkipped ==
    [][(DispatchStep /\ isEnabled) =>
          /\ \A i \in RateLimited :
                shouldNotifyStatusChange(subs[i], dcall'.oldStatus, dcall'.newStatus) =>
                   /\ dcall'.calls[i] = 0
                   /\ subs'[i] = subs[i]
                   /\ Cardinality(DetailsOf(dcall', i)) = 1
                   /\ \A k \in DetailsOf(dcall', i) :
                         dcall'.result.details[k].status = "rate_limited"
          /\ dcall'.result.notificationsSent =
                 LoopWithoutRateLimited.notificationsSent
          /\ dcall'.result.notificationsFailed =
                 LoopWithoutRateLimited.notificationsFailed]_vars

\* A dispatch has just skipped a rate-limited recipient and delivered to
\* another one.
C30_Witness ==
    /\ Dispatched
    /\ \E k \in DOMAIN dcall.result.details :
          dcall.result.details[k].status = "rate_limited"
    /\ dcall.result.notificationsSent >= 1
    /\ \E i \in DOMAIN subs : dcall.calls[i] = 0 /\ subs[i].notificationStats.totalSent = 0

(***************************************************************************)
(* Dispatches and unsubscribed subscriptions: the claims.                  *)
(***************************************************************************)
\* The step is the query of a dispatch: the dispatcher's last call is the
\* query and no subscription operation was the step.
FindStep == dcall'.op = "findActiveByFlight" /\ UNCHANGED subVars

\* The step is one pass of the loop of a dispatch in progress.
ProcessStep == batch.pc = "loop" /\ batch'.pos = batch.pos + 1

\* The places in subs of the documents the dispatch holds.
Selected(b) == {b.found[k].index : k \in DOMAIN b.found}

\* The pass leaves the i-th subscription alone: no invocation of the channel
\* for it, its stored document as it was.
Untouched(i) ==
    /\ batch'.calls[i] = batch.calls[i]
    /\ subs'[i] = subs[i]
    /\ delivered'[i] = delivered[i]

\* C24 as stated: from the moment unsubscribe succeeds until a successful
\* reactivate, no dispatch delivers to the subscription, adds a record to its
\* notification history or changes its statistics.
C24_UnsubscribedNeverNotified ==
    [][ProcessStep =>
          \A i \in DOMAIN subs : subs[i].isUnsubscribed => Untouched(i)]_vars

\* C24: the query of a dispatch selects the subscriptions with isActive true,
\* isUnsubscribed false and status active or pending, and only those; a
\* dispatch delivers to, adds history to and changes the statistics of none
\* but the subscriptions its query selected, so a subscription that is
\* unsubscribed when the query runs is not notified by that dispatch.
C24_UnsubscribedNotSelected ==
    [][/\ FindStep =>
            /\ Selected(batch') =
                 {i \in DOMAIN subs : /\ subs[i].isActive
                                      /\ ~subs[i].isUnsubscribed
                                      /\ subs[i].status \in {"active", "pending"}}
            /\ \A k \in DOMAIN batch'.found :
                  batch'.found[k].doc = subs[batch'.found[k].index]
       /\ ProcessStep =>
            \A i \in DOMAIN subs : i \notin Selected(batch) => Untouched(i)]_vars

\* A dispatch has resolved that delivered to one subscription and held no
\* document of another, which is unsubscribed.
C24_Witness ==
    /\ batch.pc = "done"
    /\ Dispatched
    /\ \E i, j \in DOMAIN subs :
          /\ subs[i].isUnsubscribed
          /\ i \notin Selected(batch)
          /\ batch.calls[i] = 0
          /\ j \in Selected(batch)
          /\ batch.calls[j] >= 1
          /\ subs[j].notificationStats.totalSent >= 1

(***************************************************************************)
(* The rate limiter: the claims.                                           *)
(***************************************************************************)
\* The step is a call of the named method of the rate limiter.
RateStep(op) == dcall'.op = op

\* The count a Map holds under a key, 0 when the key is absent.
Count(store, k) == IF k \in DOMAIN store THEN store[k] ELSE 0

\* The keys of a recipient's buckets at instant t.
HourBucketKey(email, t) ==
    [email |-> email, window |-> "hour", bucket |-> t \div (60 * 60 * 1000)]

DayBucketKey(email, t) ==
    [email |-> email, window |-> "day", bucket |-> t \div (24 * 60 * 60 * 1000)]

\* C31: checkRateLimit(recipient) returns false exactly when the recipient's
\* count in the current hour bucket is >= maxPerHour or its count in the
\* current day bucket is >= maxPerDay; updateRateLimit(recipient) increases
\* both of that recipient's current-bucket counts by exactly one and changes
\* no other count; checkRateLimit itself changes no count.
C31_RateLimitContract ==
    [][/\ RateStep("checkRateLimit") =>
            /\ dcall'.returned =
                 ~(\/ Count(rateLimitStore, HourBucketKey(dcall'.email, now))
                        >= config.maxPerHour
                   \/ Count(rateLimitStore, DayBucketKey(dcall'.email, now))
                        >= config.maxPerDay)
            /\ rateLimitStore' = rateLimitStore
       /\ RateStep("updateRateLimit") =>
            \A k \in DOMAIN rateLimitStore \cup DOMAIN rateLimitStore'
                     \cup {HourBucketKey(dcall'.email, now),
                           DayBucketKey(dcall'.email, now)} :
               Count(rateLimitStore', k) =
                  Count(rateLimitStore, k)
                  + (IF k \in {HourBucketKey(dcall'.email, now),
                               DayBucketKey(dcall'.email, now)}
                     THEN 1 ELSE 0)]_vars

\* checkRateLimit has just returned false for a recipient whose hourly count
\* is below the limit, another recipient holding counts of its own.
C31_Witness ==
    /\ dcall.op = "checkRateLimit"
    /\ ~dcall.returned
    /\ Count(rateLimitStore, HourBucketKey(dcall.email, now)) < config.maxPerHour
    /\ \E k \in DOMAIN rateLimitStore : k.email # dcall.email

\* C32: resetRateLimit(recipient) clears both current-window counters of that
\* recipient: immediately afterwards checkRateLimit(recipient) returns true,
\* the limits being positive, however many calls of updateRateLimit preceded
\* it, and the counters of every other recipient are unchanged.
C32_ResetClearsCurrentWindow ==
    [][RateStep("resetRateLimit") =>
          /\ Count(rateLimitStore', HourBucketKey(dcall'.email, now)) = 0
          /\ Count(rateLimitStore', DayBucketKey(dcall'.email, now)) = 0
          /\ (config.maxPerHour > 0 /\ config.maxPerDay > 0) =>
                checkRateLimit(rateLimitStore', config, dcall'.email, now)
          /\ \A k \in DOMAIN rateLimitStore \cup DOMAIN rateLimitStore' :
                k.email # dcall'.email =>
                   Count(rateLimitStore', k) = Count(rateLimitStore, k)]_vars

\* resetRateLimit has just been called for a recipient updateRateLimit was
\* called for in the current day bucket, another recipient holding counts.
C32_Witness ==
    /\ dcall.op = "resetRateLimit"
    /\ \E tm \in timers : tm.key = DayBucketKey(dcall.email, now)
    /\ \E k \in DOMAIN rateLimitStore : k.email # dcall.email /\ rateLimitStore[k] >= 1

\* The key belongs to a bucket that has passed at instant t.
Passed(k, t) ==
    \/ k.window = "hour" /\ k.bucket < t \div (60 * 60 * 1000)
    \/ k.window = "day" /\ k.bucket < t \div (24 * 60 * 60 * 1000)

\* The Map without the keys of the buckets that have passed at instant t.
Purged(store, t) == [k \in {x \in DOMAIN store : ~Passed(x, t)} |-> store[k]]

\* C33: rate-limit windows expire lazily: counts accumulated in an earlier
\* hour or day bucket never affect checkRateLimit once the clock has moved to
\* a later bucket, whether or not the cleanup timers have fired, and a cleanup
\* timer never removes the counter of the bucket that is current when it
\* fires.
C33_WindowsExpireLazily ==
    [][/\ RateStep("checkRateLimit") =>
            dcall'.returned =
               checkRateLimit(Purged(rateLimitStore, now), config, dcall'.email, now)
       /\ RateStep("setTimeout") =>
            \A tm \in timers \ timers' :
               /\ Passed(tm.key, now)
               /\ tm.key \notin {HourBucketKey(tm.key.email, now),
                                 DayBucketKey(tm.key.email, now)}]_vars

\* checkRateLimit has just returned true for a recipient whose counter of an
\* earlier hour is at the limit and still in the Map, its timer due and not
\* yet run.
C33_Witness ==
    /\ dcall.op = "checkRateLimit"
    /\ dcall.returned
    /\ \E tm \in timers :
          /\ tm.fireAt <= now
          /\ tm.key.email = dcall.email
          /\ tm.key.window = "hour"
          /\ Passed(tm.key, now)
          /\ Count(rateLimitStore, tm.key) >= config.maxPerHour

\* C34: rate-limit increments are atomic: however n calls of updateRateLimit
\* for one recipient in one bucket are interleaved with other calls, the
\* hourly and the daily count are both exactly n more than before; no
\* increment is lost.
C34_NoIncrementLost ==
    \A k \in DOMAIN rateLimitStore \cup DOMAIN issued :
        Count(rateLimitStore, k) = Count(issued, k)

\* Two calls of updateRateLimit for one recipient in one bucket have been
\* made, calls for another recipient between or around them.
C34_Witness ==
    /\ dcall.op = "updateRateLimit"
    /\ Count(issued, DayBucketKey(dcall.email, now)) >= 2
    /\ \E k \in DOMAIN issued : k.email # dcall.email /\ issued[k] >= 1

\* C35: a persistence outage during dispatch is surfaced to the caller: when
\* a subscription save fails, the remaining batch processing is aborted (no
\* later subscription is sent to or recorded on) and the call does not
\* resolve with success.
C35_OutageAbortsBatch ==
    [][DispatchStep =>
          \A i \in findActiveByFlight(subs) :
             (/\ isEnabled
              /\ shouldNotifyStatusChange(subs[i], dcall'.oldStatus, dcall'.newStatus)
              /\ checkRateLimit(rateLimitStore, config, subs[i].email, now)
              /\ dcall'.envs[i].save = "rejects")
                => /\ dcall'.result.success # TRUE
                   /\ \A j \in DOMAIN subs :
                         j > i => dcall'.calls[j] = 0 /\ subs'[j] = subs[j]]_vars

\* C36: while the notification service is disabled, a dispatch returns
\* success with the message 'Service disabled' without invoking the delivery
\* channel or changing any subscription statistics or rate-limit counters;
\* after enable() a dispatch behaves normally again.
C36_DisabledDispatchDoesNothing ==
    [][/\ (DispatchStep /\ ~isEnabled) =>
            /\ dcall'.result = [NoResult EXCEPT !.success = TRUE,
                                                !.message = "Service disabled"]
            /\ \A i \in DOMAIN subs : dcall'.calls[i] = 0
            /\ subs' = subs
            /\ rateLimitStore' = rateLimitStore
            /\ timers' = timers
            /\ delivered' = delivered
       /\ (DispatchStep /\ isEnabled) =>
            /\ dcall'.result.message # "Service disabled"
            /\ \A i \in findActiveByFlight(subs) :
                 (/\ shouldNotifyStatusChange(subs[i], dcall'.oldStatus,
                                              dcall'.newStatus)
                  /\ checkRateLimit(rateLimitStore, config, subs[i].email, now))
                    => dcall'.calls[i] = 1
       /\ RateStep("disable") => ~isEnabled'
       /\ RateStep("enable") => isEnabled']_vars

\* A dispatch has just been skipped by the disabled service although
\* subscriptions match and earlier dispatches had delivered.
C36_Witness ==
    /\ Dispatched
    /\ ~isEnabled
    /\ dcall.result.message = "Service disabled"
    /\ dcall.oldStatus # dcall.newStatus
    /\ findActiveByFlight(subs) # {}
    /\ \E i \in DOMAIN subs :
          /\ subs[i].notificationStats.totalSent >= 1
          /\ checkRateLimit(rateLimitStore, config, subs[i].email, now)

\* C37: the stored status and the flags stay consistent in every state
\* reachable from a newly created subscription by calls of verify,
\* unsubscribeUser and reactivate: status is unsubscribed iff isUnsubscribed
\* iff isActive is false, and status is active only if the subscription is
\* verified and not unsubscribed.
C37_StatusAndFlagsConsistent ==
    \A i \in DOMAIN subs :
        /\ (subs[i].status = "unsubscribed") <=> subs[i].isUnsubscribed
        /\ subs[i].isUnsubscribed <=> ~subs[i].isActive
        /\ subs[i].status = "active" =>
              subs[i].isVerified /\ ~subs[i].isUnsubscribed

\* The entries of the details of a result that have the given status.
DetailsWithStatus(result, status) ==
    {k \in DOMAIN result.details : result.details[k].status = status}

\* C38: batch accounting is exact: in the result of a dispatch over n matching
\* subscriptions every subscription has at most one detail entry, and
\* notificationsSent + notificationsFailed + (number of rate_limited details)
\* equals the number of detail entries and is at most n, also when recording
\* the outcome fails after a successful send.
C38_BatchAccountingExact ==
    [][(DispatchStep /\ isEnabled /\ findActiveByFlight(subs) # {}) =>
          /\ \A i \in DOMAIN subs : Cardinality(DetailsOf(dcall', i)) <= 1
          /\ dcall'.result.notificationsSent + dcall'.result.notificationsFailed
               + Cardinality(DetailsWithStatus(dcall'.result, "rate_limited"))
             = Len(dcall'.result.details)
          /\ Len(dcall'.result.details) <= Cardinality(findActiveByFlight(subs))]_vars

\* C39: processDataDeletionRequest(email) removes from the rate-limit store
\* only the counters of that recipient: the hourly and daily counters of every
\* other recipient, one whose address contains the given address included,
\* are unchanged.
C39_DeletionRemovesOwnCountersOnly ==
    [][RateStep("processDataDeletionRequest") =>
          \A k \in DOMAIN rateLimitStore :
             k.email # dcall'.email =>
                /\ k \in DOMAIN rateLimitStore'
                /\ rateLimitStore'[k] = rateLimitStore[k]]_vars

(***************************************************************************)
(* The database manager: the claims.                                       *)
(***************************************************************************)
\* C40: DatabaseManager.connect() never resolves without a live connection:
\* every call either resolves with a connection and isConnected true or
\* rejects after at most maxRetries attempts, and a call made after an earlier
\* call exhausted its retries starts fresh attempts instead of resolving at
\* once with no connection.
C40_ConnectNeverResolvesEmpty ==
    [][\A p \in Callers :
          dbManager'.outcome[p] # dbManager.outcome[p] =>
             /\ dbManager'.outcome[p] # "undefined"
             /\ dbManager'.outcome[p] = "connection" => dbManager'.isConnected
             /\ dbManager'.outcome[p] = "rejected" => dbManager.attempts <= maxRetries]_vars
====
